---- MODULE Spec2Model ----
(***************************************************************************)
(* TaskFlow: the real-time synchronisation engine.                         *)
(*   - the client's reconciling store (src/src/store/taskStore.ts)         *)
(*   - the server's task routes      (src/server/routes/tasks.js)          *)
(*   - the socket rooms and the deadline scheduler (server entry point)    *)
(***************************************************************************)
EXTENDS Integers, Sequences, FiniteSets, TLC

(* ------------------------------ bounds --------------------------------- *)
\* calls of moveTask, createTask, updateTask in one behaviour of the store, and
\* writes other users send meanwhile
MaxMoves == 2
MaxCreates == 2
MaxUpdates == 1
MaxRemote == 1
\* readings of Date.now() (milliseconds) a behaviour goes through
MaxClock == 2
\* largest destination index a drop hands to moveTask
MaxIndex == 1

(* ------------------------------ values --------------------------------- *)
NoVal == "none"
\* the board the client has open, and another board (in its list only where a
\* behaviour says so)
OpenBoard == "B1"
OtherBoard == "B2"
ServerBoards == {OpenBoard, OtherBoard}
ColumnIds == {"todo", "done"}
\* titles as typed: sequences of characters, blanks included
RawTitles == {<<"x">>, <<" ", "y", " ">>}
\* the title typed for a new task
NewTitles == {<<" ", "n", " ">>}

SrvId(n) == <<"srv", n>>
TempId(ms) == <<"temp", ms>>
T1 == SrvId(1)
T2 == SrvId(2)
\* the task id of what is about no task
NoTask == SrvId(0)

(* --------------------------- pure helpers ------------------------------ *)
\* String.prototype.trim
RECURSIVE TrimLeft(_)
TrimLeft(s) == IF s # <<>> /\ Head(s) = " " THEN TrimLeft(Tail(s)) ELSE s
RECURSIVE TrimRight(_)
TrimRight(s) ==
    IF s # <<>> /\ s[Len(s)] = " " THEN TrimRight(SubSeq(s, 1, Len(s) - 1)) ELSE s
Trim(s) == TrimRight(TrimLeft(s))

\* { ...a, ...b }
Merge(a, b) ==
    [k \in (DOMAIN a) \cup (DOMAIN b) |-> IF k \in DOMAIN b THEN b[k] ELSE a[k]]

\* a copy of the object f without the key k (delete f[k])
Without(f, k) == [x \in (DOMAIN f) \ {k} |-> f[x]]
\* f with f[k] = v
With(f, k, v) == [x \in (DOMAIN f) \cup {k} |-> IF x = k THEN v ELSE f[x]]

\* taskIds.filter(id => id !== taskId)
FilterOut(ids, taskId) == SelectSeq(ids, LAMBDA y : y # taskId)
\* taskIds.map(id => id === from ? to : id)
Replace(ids, from, to) == [i \in 1..Len(ids) |-> IF ids[i] = from THEN to ELSE ids[i]]
\* the start index Array.prototype.splice uses
SpliceStart(len, start) ==
    IF start < 0 THEN (IF len + start < 0 THEN 0 ELSE len + start)
    ELSE IF start > len THEN len ELSE start
\* ids.splice(start, 0, x)
Splice(ids, start, x) ==
    LET i == SpliceStart(Len(ids), start)
    IN  SubSeq(ids, 1, i) \o <<x>> \o SubSeq(ids, i + 1, Len(ids))

Contains(ids, x) == \E i \in 1..Len(ids) : ids[i] = x


(* ------------------------------- state --------------------------------- *)
VARIABLES
    \* the client store (create<TaskState>): task map, boards with their columns'
    \* taskIds lists, the recorded error
    tasks, boards, error,
    \* the server's Task collection and its id sequence
    srvTasks, srvSeq,
    \* HTTP requests in flight (per operation), the events pushed to the client's
    \* socket and not yet handled, the client's clock (Date.now())
    inflight, nextOp, inbox, now,
    \* the calls each operation has left in this behaviour
    budget,
    \* history: what the last step did
    lastStep

storeVars == <<tasks, boards, error, srvTasks, srvSeq, inflight, nextOp, inbox, now,
               budget, lastStep>>

VARIABLES
    \* the Notification collection and its id sequence
    notifs, notifSeq,
    \* the runs of checkDeadlines: where each stands, and the tasks its query
    \* returned that it has not gone through yet
    runs,
    \* timer firings left in this behaviour
    ticksLeft,
    \* history: the new_notification events of type task_deadline emitted per
    \* task, the runs finished, whether a run started during another, and
    \* whether a recipient removed a notification
    emitted, ticksDone, overlapped, removed

schedVars == <<notifs, notifSeq, runs, ticksLeft, emitted, ticksDone, overlapped, removed>>

VARIABLES
    \* the rooms each connected socket has joined (socket.io's room membership)
    rooms,
    \* history: the last emit to a board room, and the sockets it reached
    lastEmit

roomVars == <<rooms, lastEmit>>

VARIABLES
    \* the client's transport (SocketService.socket and its connection), the
    \* events it has emitted that the server has not handled yet, and the
    \* store's currentBoardId
    link, sendq, current,
    \* history: the connection was lost at some time; a task_updated of the
    \* open board was emitted while the connection was lost; one did not get
    \* into the projection for another reason (emitted before the client was in
    \* the room, or handled while another board was open)
    lostOnce, missedLost, missedOther

sessionVars == <<link, sendq, current, lostOnce, missedLost, missedOther>>

VARIABLES
    \* the Board document of the open board (its name, visibility, members), or
    \* what is left of it after its deletion
    srvBoard,
    \* requests to the board routes left in this behaviour
    requestsLeft,
    \* history: the last request to a board route, its answer, the emits it
    \* made and the notifications it stored
    lastRoute

boardVars == <<srvBoard, requestsLeft, lastRoute>>

VARIABLES
    \* the sockets the client created and replaced without disconnecting them,
    \* and the times the store's listeners are registered on the current socket
    leaked, listeners

socketVars == <<leaked, listeners>>

VARIABLES
    \* the store's notifications list (ids, newest first) and the server's
    \* Notification documents of the client's user
    notifications, srvNotifications,
    \* the new_notification events pushed to the client's socket and not yet
    \* handled, the fetchNotifications requests in flight, the notifications
    \* the server has left to create in this behaviour
    pushed, noticeFetch, noticesLeft,
    \* the Comment documents the server holds per task (their number)
    srvComments

noticeVars == <<notifications, srvNotifications, pushed, noticeFetch, noticesLeft,
                srvComments>>

VARIABLES
    \* history: the boards the client's user was removed from by their owner
    evicted

evictVars == <<evicted>>

\* what the steps of the store, of the scheduler and of the sockets and routes
\* leave alone: each is a process of its own
otherThanStore == <<schedVars, roomVars, sessionVars, boardVars, socketVars, noticeVars, evictVars>>
otherThanSched == <<storeVars, roomVars, sessionVars, boardVars, socketVars, noticeVars, evictVars>>
otherThanRooms ==
    <<tasks, boards, error, inflight, nextOp, inbox, now, budget, lastStep, schedVars,
      sessionVars, boardVars, socketVars, noticeVars, evictVars>>

Step(kind, info) == [kind |-> kind, info |-> info]
\* a step no property looks back at
Quiet == Step("other", NoVal)

\* the task as the store holds it after reading it from the server:
\* { ...t, id: t._id || t.id, columnId: t.status }
FromServer(t) == Merge(t, [columnId |-> t.status])

\* the projection the claims speak of: the task map and every column's list
Projection == [tasks |-> tasks, boards |-> boards]

\* where an id sits in the columns' lists: <<board, column, index>>
Positions(bds, id) ==
    {<<b, c, i>> \in (DOMAIN bds) \X ColumnIds \X (1..(MaxCreates + MaxMoves + 2)) :
        i <= Len(bds[b][c]) /\ bds[b][c][i] = id}
\* the columns of a board whose list holds the id
ColumnsHolding(bds, b, id) == {c \in DOMAIN bds[b] : Contains(bds[b][c], id)}

(* ---------------------- moveTask: the synchronous part ------------------ *)
\* what the DUPLICATE-PRONE variant of the destination branch would do: insert
\* without first filtering the id out of the destination list
MoveColumnTaskIdsNoFilter(colId, ids, taskId, sourceStatus, destStatus, destIndex) ==
    IF colId = sourceStatus /\ colId = destStatus
    THEN Splice(FilterOut(ids, taskId), destIndex, taskId)
    ELSE IF colId = sourceStatus THEN FilterOut(ids, taskId)
    ELSE IF colId = destStatus THEN Splice(ids, destIndex, taskId)
    ELSE ids

\* b.columns.map(col => ...) of moveTask, for one column
MoveColumnTaskIds(colId, ids, taskId, sourceStatus, destStatus, destIndex) ==
    IF colId = sourceStatus /\ colId = destStatus
    THEN Splice(FilterOut(ids, taskId), destIndex, taskId)
    ELSE IF colId = sourceStatus THEN FilterOut(ids, taskId)
    ELSE IF colId = destStatus THEN Splice(FilterOut(ids, taskId), destIndex, taskId)
    ELSE ids

\* newBoards of moveTask
MoveBoards(bds, boardId, taskId, sourceStatus, destStatus, destIndex) ==
    [b \in DOMAIN bds |->
        IF b # boardId THEN bds[b]
        ELSE [c \in DOMAIN bds[b] |->
                MoveColumnTaskIds(c, bds[b][c], taskId, sourceStatus, destStatus,
                                  destIndex)]]

\* a set() of moveTask that would write status and leave columnId behind
MoveTasksStatusOnly(tks, taskId, destStatus) ==
    With(tks, taskId, Merge(tks[taskId], [status |-> destStatus]))

\* the tasks of moveTask's set(): columnId and status both become destStatus
MoveTasks(tks, taskId, destStatus) ==
    With(tks, taskId, Merge(tks[taskId], [columnId |-> destStatus, status |-> destStatus]))

\* the projection after the synchronous part of moveTask, from projection p.
\* An unknown task makes task.boardId throw, a board that is not in the list
\* returns early: both leave the store as it is.
MoveProjection(p, taskId, sourceStatus, destStatus, destIndex) ==
    IF taskId \notin DOMAIN p.tasks THEN p
    ELSE IF p.tasks[taskId].boardId \notin DOMAIN p.boards THEN p
    ELSE [tasks  |-> MoveTasks(p.tasks, taskId, destStatus),
          boards |-> MoveBoards(p.boards, p.tasks[taskId].boardId, taskId,
                                sourceStatus, destStatus, destIndex)]

\* a moveTask that reaches its set() also schedules the deferred write
MoveSchedulesWrite(p, taskId) ==
    taskId \in DOMAIN p.tasks /\ p.tasks[taskId].boardId \in DOMAIN p.boards

MoveTask(taskId, sourceStatus, destStatus, destIndex) ==
    /\ UNCHANGED otherThanStore
    /\ budget.move > 0
    /\ LET p == Projection
           q == MoveProjection(p, taskId, sourceStatus, destStatus, destIndex)
           args == <<taskId, sourceStatus, destStatus, destIndex>>
       IN  /\ tasks' = q.tasks
           /\ boards' = q.boards
           /\ inflight' =
                IF MoveSchedulesWrite(p, taskId)
                THEN With(inflight, nextOp,
                          [kind |-> "move", stage |-> "sent", taskId |-> taskId,
                           body |-> [status |-> destStatus, position |-> destIndex],
                           originalState |-> p])
                ELSE inflight
           /\ lastStep' = Step("moveTask",
                               [args |-> args,
                                repeat |-> (lastStep.kind = "moveTask"
                                            /\ lastStep.info.args = args),
                                firstChanged |-> (lastStep.kind = "moveTask"
                                                  /\ lastStep.info.changed),
                                changed |-> (q # p)])
    /\ nextOp' = nextOp + 1
    /\ budget' = [budget EXCEPT !.move = @ - 1]
    /\ UNCHANGED <<error, srvTasks, srvSeq, inbox, now>>

\* the revert that restores the boards alone
RevertMoveBoardsOnly(op) == [tasks |-> tasks, boards |-> op.originalState.boards]

\* set({ tasks: originalState.tasks, boards: originalState.boards, ... })
RevertMove(op) == [tasks |-> op.originalState.tasks, boards |-> op.originalState.boards]

\* the deferred write of a move failed (no token, network, or an error status)
MoveWriteFail(o) ==
    /\ UNCHANGED otherThanStore
    /\ o \in DOMAIN inflight
    /\ inflight[o].kind = "move"
    /\ inflight[o].stage \in {"sent", "failed"}
    /\ tasks' = RevertMove(inflight[o]).tasks
    /\ boards' = RevertMove(inflight[o]).boards
    /\ error' = "move failed"
    /\ inflight' = Without(inflight, o)
    /\ lastStep' = Step("moveFail",
                        [op |-> inflight[o],
                         undone |-> (Projection # inflight[o].originalState)])
    /\ UNCHANGED <<srvTasks, srvSeq, nextOp, inbox, now, budget>>

\* the deferred write of a move was answered 200: nothing is done with the answer
MoveWriteOk(o) ==
    /\ UNCHANGED otherThanStore
    /\ o \in DOMAIN inflight
    /\ inflight[o].kind = "move"
    /\ inflight[o].stage = "answered"
    /\ inflight' = Without(inflight, o)
    /\ lastStep' = Quiet
    /\ UNCHANGED <<tasks, boards, error, srvTasks, srvSeq, nextOp, inbox, now, budget>>


(* ------------------------------ createTask ------------------------------ *)
\* a field of a task object, undefined when the object lacks it
Field(r, k) == IF k \in DOMAIN r THEN r[k] ELSE NoVal

\* const tempId = `temp-${Date.now()}`
NewTempId == TempId(now)

\* the optimistic set() of createTask: the task enters the map under tempId and
\* the tail of the target column's list
CreateOptimistic(p, tempId, data) ==
    [tasks  |-> With(p.tasks, tempId, Merge(data, [id |-> tempId])),
     boards |-> [b \in DOMAIN p.boards |->
                   IF b # data.boardId THEN p.boards[b]
                   ELSE [c \in DOMAIN p.boards[b] |->
                           IF c = data.columnId
                           THEN Append(p.boards[b][c], tempId)
                           ELSE p.boards[b][c]]]]

\* handleSave of the task dialog calls createTask with the trimmed title, the
\* column the dialog was opened for and the current board
CreateTask(rawTitle, columnId) ==
    /\ UNCHANGED otherThanStore
    /\ budget.create > 0
    /\ Trim(rawTitle) # <<>>
    /\ LET data == [title |-> Trim(rawTitle), columnId |-> columnId, boardId |-> OpenBoard]
           p == Projection
           q == CreateOptimistic(p, NewTempId, data)
       IN  /\ tasks' = q.tasks
           /\ boards' = q.boards
           /\ inflight' = With(inflight, nextOp,
                               [kind |-> "create", stage |-> "sent", tempId |-> NewTempId,
                                data |-> data, echoMerged |-> FALSE,
                                pre |-> p, post |-> q])
           /\ lastStep' = Quiet
    /\ nextOp' = nextOp + 1
    /\ budget' = [budget EXCEPT !.create = @ - 1]
    /\ UNCHANGED <<error, srvTasks, srvSeq, inbox, now>>

\* the reconciling set() of createTask: the temporary key leaves the map, the
\* real task enters it, and in the column newTask.columnId of the board
\* newTask.boardId the temporary id is mapped to the real one
CreateReconcile(p, tempId, newTask) ==
    [tasks  |-> With(Without(p.tasks, tempId), newTask.id, newTask),
     boards |-> [b \in DOMAIN p.boards |->
                   IF b # newTask.boardId THEN p.boards[b]
                   ELSE [c \in DOMAIN p.boards[b] |->
                           IF c = newTask.columnId
                           THEN Replace(p.boards[b][c], tempId, newTask.id)
                           ELSE p.boards[b][c]]]]

\* the POST was answered 201
CreateTaskOk(o) ==
    /\ UNCHANGED otherThanStore
    /\ o \in DOMAIN inflight
    /\ inflight[o].kind = "create"
    /\ inflight[o].stage = "answered"
    /\ LET op == inflight[o]
           newTask == FromServer(op.resp)
           q == CreateReconcile(Projection, op.tempId, newTask)
       IN  /\ tasks' = q.tasks
           /\ boards' = q.boards
           /\ lastStep' = Step("createOk",
                               [op |-> op, newTask |-> newTask,
                                held |-> Positions(boards, op.tempId)])
    /\ inflight' = Without(inflight, o)
    /\ UNCHANGED <<error, srvTasks, srvSeq, nextOp, inbox, now, budget>>

\* the rollback set() of createTask's catch
CreateRollback(p, tempId, data) ==
    [tasks  |-> Without(p.tasks, tempId),
     boards |-> [b \in DOMAIN p.boards |->
                   IF b # data.boardId THEN p.boards[b]
                   ELSE [c \in DOMAIN p.boards[b] |-> FilterOut(p.boards[b][c], tempId)]]]

\* the POST failed (no token, network, or an error status)
CreateTaskFail(o) ==
    /\ UNCHANGED otherThanStore
    /\ o \in DOMAIN inflight
    /\ inflight[o].kind = "create"
    /\ inflight[o].stage \in {"sent", "failed"}
    /\ LET op == inflight[o]
           q == CreateRollback(Projection, op.tempId, op.data)
       IN  /\ tasks' = q.tasks
           /\ boards' = q.boards
           /\ lastStep' = Step("createFail",
                               [op |-> op, undisturbed |-> (Projection = op.post)])
    /\ error' = "create failed"
    /\ inflight' = Without(inflight, o)
    /\ UNCHANGED <<srvTasks, srvSeq, nextOp, inbox, now, budget>>

(* ------------------------------ updateTask ------------------------------ *)
\* handleSave of the task dialog calls updateTask with the trimmed title; the
\* store awaits the PUT before it touches the map
UpdateTask(taskId, rawTitle) ==
    /\ UNCHANGED otherThanStore
    /\ budget.update > 0
    /\ taskId \in DOMAIN tasks
    /\ Trim(rawTitle) # <<>>
    /\ inflight' = With(inflight, nextOp,
                        [kind |-> "update", stage |-> "sent", taskId |-> taskId,
                         updates |-> [title |-> Trim(rawTitle)],
                         body |-> [title |-> Trim(rawTitle)],
                         echoMerged |-> FALSE])
    /\ lastStep' = Quiet
    /\ nextOp' = nextOp + 1
    /\ budget' = [budget EXCEPT !.update = @ - 1]
    /\ UNCHANGED <<tasks, boards, error, srvTasks, srvSeq, inbox, now>>

\* the object a spread of a possibly missing map entry starts from
Entry(tks, taskId) == IF taskId \in DOMAIN tks THEN tks[taskId] ELSE [k \in {} |-> NoVal]

\* an update whose answer changes nothing in the map
UpdateApplyNothing(tks, taskId, updates) == tks

\* tasks: { ...state.tasks, [taskId]: { ...state.tasks[taskId], ...updates } }
UpdateApply(tks, taskId, updates) == With(tks, taskId, Merge(Entry(tks, taskId), updates))

\* the PUT was answered 200
UpdateTaskOk(o) ==
    /\ UNCHANGED otherThanStore
    /\ o \in DOMAIN inflight
    /\ inflight[o].kind = "update"
    /\ inflight[o].stage = "answered"
    /\ tasks' = UpdateApply(tasks, inflight[o].taskId, inflight[o].updates)
    /\ lastStep' = Step("updateOk", [op |-> inflight[o]])
    /\ inflight' = Without(inflight, o)
    /\ UNCHANGED <<boards, error, srvTasks, srvSeq, nextOp, inbox, now, budget>>

\* the PUT failed
UpdateTaskFail(o) ==
    /\ UNCHANGED otherThanStore
    /\ o \in DOMAIN inflight
    /\ inflight[o].kind = "update"
    /\ inflight[o].stage \in {"sent", "failed"}
    /\ error' = "update failed"
    /\ lastStep' = Quiet
    /\ inflight' = Without(inflight, o)
    /\ UNCHANGED <<tasks, boards, srvTasks, srvSeq, nextOp, inbox, now, budget>>


(* --------------------------- the task routes ---------------------------- *)
\* the board rooms the client's socket has joined: the open board, and a board
\* it had open before (join_board never leaves a room)
JoinedBoards == {OpenBoard, OtherBoard}

\* io.to(`board:${board._id}`).emit(type, { ...task.toObject(), id }) as far as
\* this client's socket is concerned
EmitToBoard(box, boardId, type, task, origin) ==
    IF boardId \in JoinedBoards
    THEN Append(box, [type |-> type, task |-> task, origin |-> origin])
    ELSE box

\* router.post('/'): Task.create({ title: title.trim(), status: status || 'todo',
\* boardId, position: 0, ... })
NewTaskDoc(id, body) ==
    [id |-> id, boardId |-> body.boardId,
     status |-> IF Field(body, "columnId") = NoVal THEN "todo" ELSE body.columnId,
     title |-> Trim(body.title), position |-> 0]

\* router.put('/:id'): the fields of the body that are defined are assigned
PutTaskDoc(doc, body) ==
    Merge(doc,
          [k \in (DOMAIN body) \cap {"title", "status", "position"} |->
              IF k = "title" THEN Trim(body[k]) ELSE body[k]])

\* the request did not reach the route, or the route answered 4xx/5xx before it
\* wrote anything: the client's catch branch is what follows
ServerReject(o) ==
    /\ UNCHANGED otherThanStore
    /\ o \in DOMAIN inflight
    /\ inflight[o].stage = "sent"
    /\ inflight[o].kind \in {"create", "move", "update"}
    /\ inflight' = With(inflight, o, Merge(inflight[o], [stage |-> "failed"]))
    /\ lastStep' = Quiet
    /\ UNCHANGED <<tasks, boards, error, srvTasks, srvSeq, nextOp, inbox, now, budget>>

\* the kinds of failure a route answers a write with: 403 when the user is no
\* admin of the board, 404 when the task or the board is not found
ErrorKinds == {"not_authorized", "not_found"}

\* the route answers the write of a createTask or a moveTask with 403 or 404,
\* before it wrote anything: axios rejects with that error
ServerRejectStatus(o, why) ==
    /\ UNCHANGED otherThanStore
    /\ o \in DOMAIN inflight
    /\ inflight[o].stage = "sent"
    /\ inflight[o].kind \in {"create", "move"}
    /\ inflight' = With(inflight, o, Merge(inflight[o], [stage |-> "failed", why |-> why]))
    /\ lastStep' = Quiet
    /\ UNCHANGED <<tasks, boards, error, srvTasks, srvSeq, nextOp, inbox, now, budget>>

\* POST /api/tasks
ServerCreateTask(o) ==
    /\ UNCHANGED otherThanStore
    /\ o \in DOMAIN inflight
    /\ inflight[o].kind = "create"
    /\ inflight[o].stage = "sent"
    /\ LET doc == NewTaskDoc(SrvId(srvSeq + 1), inflight[o].data)
       IN  /\ srvTasks' = With(srvTasks, doc.id, doc)
           /\ inbox' = EmitToBoard(inbox, doc.boardId, "task_created", doc, o)
           /\ inflight' = With(inflight, o,
                               Merge(inflight[o], [stage |-> "answered", resp |-> doc]))
    /\ srvSeq' = srvSeq + 1
    /\ lastStep' = Quiet
    /\ UNCHANGED <<tasks, boards, error, nextOp, now, budget>>

\* PUT /api/tasks/:id, for the write of updateTask and the deferred write of
\* moveTask; an id the collection does not hold (a temporary id among them)
\* is answered with an error
ServerPutTask(o) ==
    /\ UNCHANGED otherThanStore
    /\ o \in DOMAIN inflight
    /\ inflight[o].kind \in {"update", "move"}
    /\ inflight[o].stage = "sent"
    /\ IF inflight[o].taskId \in DOMAIN srvTasks
       THEN LET doc == PutTaskDoc(srvTasks[inflight[o].taskId], inflight[o].body)
            IN  /\ srvTasks' = With(srvTasks, doc.id, doc)
                /\ inbox' = EmitToBoard(inbox, doc.boardId, "task_updated", doc, o)
                /\ inflight' = With(inflight, o,
                                    Merge(inflight[o], [stage |-> "answered", resp |-> doc]))
       ELSE /\ inflight' = With(inflight, o, Merge(inflight[o], [stage |-> "failed"]))
            /\ UNCHANGED <<srvTasks, inbox>>
    /\ lastStep' = Quiet
    /\ UNCHANGED <<tasks, boards, error, srvSeq, nextOp, now, budget>>

\* PUT /api/tasks/:id sent by another user of the board
RemotePutTask(taskId, body) ==
    /\ UNCHANGED otherThanStore
    /\ budget.remote > 0
    /\ taskId \in DOMAIN srvTasks
    /\ LET doc == PutTaskDoc(srvTasks[taskId], body)
       IN  /\ srvTasks' = With(srvTasks, doc.id, doc)
           /\ inbox' = EmitToBoard(inbox, doc.boardId, "task_updated", doc, 0)
    /\ budget' = [budget EXCEPT !.remote = @ - 1]
    /\ lastStep' = Quiet
    /\ UNCHANGED <<tasks, boards, error, srvSeq, inflight, nextOp, now>>

\* the bodies another user's write carries: a new title, or a move
RemoteBodies ==
    {[title |-> <<"z">>]} \cup {[status |-> c, position |-> 0] : c \in ColumnIds}

\* { $sort: { position: 1, createdAt: -1 } }: the sequence of the ids in S,
\* by position, the newer first among equals (ids are handed out in creation order)
Before(a, b) ==
    \/ a.position < b.position
    \/ a.position = b.position /\ a.id[2] > b.id[2]
RECURSIVE SortDocs(_)
SortDocs(S) ==
    IF S = {} THEN <<>>
    ELSE LET first == CHOOSE a \in S : \A b \in S \ {a} : Before(a, b)
         IN  <<first>> \o SortDocs(S \ {first})

\* GET /api/tasks/board/:boardId
ServerFetchTasks(o) ==
    /\ UNCHANGED otherThanStore
    /\ o \in DOMAIN inflight
    /\ inflight[o].kind = "fetch"
    /\ inflight[o].stage = "sent"
    /\ inflight' = With(inflight, o,
                        Merge(inflight[o],
                              [stage |-> "answered",
                               resp |-> SortDocs({srvTasks[i] : i \in
                                          {j \in DOMAIN srvTasks :
                                             srvTasks[j].boardId = inflight[o].boardId}})]))
    /\ lastStep' = Quiet
    /\ UNCHANGED <<tasks, boards, error, srvTasks, srvSeq, nextOp, inbox, now, budget>>

(* ------------------------------ fetchTasks ------------------------------ *)
\* the taskIds a column gets from the response: the ids whose status is the column
ColumnFromResponse(resp, c) ==
    LET mine == SelectSeq(resp, LAMBDA t : t.status = c)
    IN  [i \in 1..Len(mine) |-> mine[i].id]

\* updateBoardTasks and the final set() of fetchTasks. tasksMap is filled while
\* the board is rebuilt, so it stays empty when the board is in no list.
FetchMerge(p, boardId, resp) ==
    [tasks  |-> IF boardId \in DOMAIN p.boards
                THEN Merge(p.tasks,
                           [id \in {resp[i].id : i \in 1..Len(resp)} |->
                               FromServer(CHOOSE t \in {resp[i] : i \in 1..Len(resp)} :
                                             t.id = id)])
                ELSE p.tasks,
     boards |-> [b \in DOMAIN p.boards |->
                   IF b # boardId THEN p.boards[b]
                   ELSE [c \in DOMAIN p.boards[b] |-> ColumnFromResponse(resp, c)]]]

FetchTasksOk(o) ==
    /\ UNCHANGED otherThanStore
    /\ o \in DOMAIN inflight
    /\ inflight[o].kind = "fetch"
    /\ inflight[o].stage = "answered"
    /\ LET q == FetchMerge(Projection, inflight[o].boardId, inflight[o].resp)
       IN  /\ tasks' = q.tasks
           /\ boards' = q.boards
    /\ inflight' = Without(inflight, o)
    /\ lastStep' = Step("fetchOk", [op |-> inflight[o]])
    /\ UNCHANGED <<error, srvTasks, srvSeq, nextOp, inbox, now, budget>>

FetchTasksFail(o) ==
    /\ UNCHANGED otherThanStore
    /\ o \in DOMAIN inflight
    /\ inflight[o].kind = "fetch"
    /\ inflight[o].stage = "sent"
    /\ error' = "fetch failed"
    /\ inflight' = Without(inflight, o)
    /\ lastStep' = Quiet
    /\ UNCHANGED <<tasks, boards, srvTasks, srvSeq, nextOp, inbox, now, budget>>

(* --------------------------- inbound events ----------------------------- *)
\* the operation whose echo was merged remembers it (history)
NoteEcho(fl, origin) ==
    IF origin \in DOMAIN fl /\ fl[origin].kind \in {"create", "update"}
    THEN With(fl, origin, Merge(fl[origin], [echoMerged |-> TRUE]))
    ELSE fl

\* socketService.on('task_created'): a task of the open board starts fetchTasks,
\* whose first set() clears the error
OnTaskCreated ==
    /\ UNCHANGED otherThanStore
    /\ inbox # <<>>
    /\ Head(inbox).type = "task_created"
    /\ LET ev == Head(inbox)
       IN  IF ev.task.boardId = OpenBoard
           THEN /\ inflight' = With(NoteEcho(inflight, ev.origin), nextOp,
                                    [kind |-> "fetch", stage |-> "sent",
                                     boardId |-> ev.task.boardId])
                /\ nextOp' = nextOp + 1
                /\ error' = NoVal
           ELSE UNCHANGED <<inflight, nextOp, error>>
    /\ inbox' = Tail(inbox)
    /\ lastStep' = Quiet
    /\ UNCHANGED <<tasks, boards, srvTasks, srvSeq, now, budget>>

\* socketService.on('task_updated'): a task of the open board is merged field
\* by field into the map entry
OnTaskUpdated ==
    /\ UNCHANGED otherThanStore
    /\ inbox # <<>>
    /\ Head(inbox).type = "task_updated"
    /\ LET ev == Head(inbox)
       IN  IF ev.task.boardId = OpenBoard
           THEN /\ tasks' = With(tasks, ev.task.id, Merge(Entry(tasks, ev.task.id), ev.task))
                /\ inflight' = NoteEcho(inflight, ev.origin)
           ELSE UNCHANGED <<tasks, inflight>>
    /\ inbox' = Tail(inbox)
    /\ lastStep' = Quiet
    /\ UNCHANGED <<boards, error, srvTasks, srvSeq, nextOp, now, budget>>

\* time passes between two readings of Date.now()
Tick ==
    /\ UNCHANGED otherThanStore
    /\ now < MaxClock
    /\ now' = now + 1
    /\ lastStep' = Quiet
    /\ UNCHANGED <<tasks, boards, error, srvTasks, srvSeq, inflight, nextOp, inbox, budget>>


(* ------------------------- the store's behaviours ----------------------- *)
T3 == SrvId(3)
InitDocs ==
    [id \in {T1, T2, T3} |->
        [id |-> id,
         boardId |-> IF id = T3 THEN OtherBoard ELSE OpenBoard,
         status |-> "todo", title |-> <<"a">>,
         position |-> IF id = T2 THEN 1 ELSE 0]]

\* the store after fetchBoards and fetchTasks loaded the open board B1 with
\* todo = [t1, t2] and done = []; t3 is a task of a public board, and is in the
\* map when the client has looked at that board before
InitStore(calls, known) ==
    /\ srvTasks = InitDocs
    /\ srvSeq = 3
    /\ tasks = [id \in known |-> FromServer(InitDocs[id])]
    /\ boards = [b \in {OpenBoard} |->
                    [c \in ColumnIds |-> IF c = "todo" THEN <<T1, T2>> ELSE <<>>]]
    /\ error = NoVal
    /\ inflight = [o \in {} |-> NoVal]
    /\ nextOp = 1
    /\ inbox = <<>>
    /\ now = 1
    /\ budget = calls
    /\ lastStep = Quiet

\* the ids moveTask and updateTask can be called with: the ids on the screen
KnownIds == DOMAIN tasks

Moves ==
    \/ \E t \in KnownIds, src \in ColumnIds, dst \in ColumnIds, i \in 0..MaxIndex :
          MoveTask(t, src, dst, i)
    \/ \E o \in DOMAIN inflight : MoveWriteFail(o)
    \/ \E o \in DOMAIN inflight : MoveWriteOk(o)
Creates ==
    \/ \E r \in NewTitles, c \in ColumnIds : CreateTask(r, c)
    \/ \E o \in DOMAIN inflight : CreateTaskOk(o)
    \/ \E o \in DOMAIN inflight : CreateTaskFail(o)
    \/ \E o \in DOMAIN inflight : ServerCreateTask(o)
    \/ \E o \in DOMAIN inflight : ServerFetchTasks(o)
    \/ \E o \in DOMAIN inflight : FetchTasksOk(o)
    \/ \E o \in DOMAIN inflight : FetchTasksFail(o)
    \/ OnTaskCreated
Updates ==
    \/ \E t \in KnownIds, r \in RawTitles : UpdateTask(t, r)
    \/ \E o \in DOMAIN inflight : UpdateTaskOk(o)
    \/ \E o \in DOMAIN inflight : UpdateTaskFail(o)
    \/ \E t \in DOMAIN srvTasks, b \in RemoteBodies : RemotePutTask(t, b)
Puts ==
    \/ \E o \in DOMAIN inflight : ServerReject(o)
    \/ \E o \in DOMAIN inflight : ServerPutTask(o)
    \/ OnTaskUpdated

(* ------------------ what other users do, and its events ----------------- *)
\* deletions, comments and board changes of other users in one behaviour
MaxOthers == 2

\* an event whose payload is not a task document: the id it names and the
\* board whose room it was emitted to
About(taskId, boardId) == [id |-> taskId, boardId |-> boardId]

\* DELETE /api/tasks/:id sent by another user: task_deleted carries the id alone
RemoteDeleteTask(taskId) ==
    /\ UNCHANGED otherThanStore
    /\ budget.remote > 0
    /\ taskId \in DOMAIN srvTasks
    /\ srvTasks' = Without(srvTasks, taskId)
    /\ inbox' = EmitToBoard(inbox, srvTasks[taskId].boardId, "task_deleted",
                            About(taskId, srvTasks[taskId].boardId), 0)
    /\ budget' = [budget EXCEPT !.remote = @ - 1]
    /\ lastStep' = Quiet
    /\ UNCHANGED <<tasks, boards, error, srvSeq, inflight, nextOp, now>>

\* POST /api/comments/:taskId sent by another user: new_comment carries the
\* comment with its taskId
RemoteComment(taskId) ==
    /\ UNCHANGED otherThanStore
    /\ budget.remote > 0
    /\ taskId \in DOMAIN srvTasks
    /\ inbox' = EmitToBoard(inbox, srvTasks[taskId].boardId, "new_comment",
                            About(taskId, srvTasks[taskId].boardId), 0)
    /\ budget' = [budget EXCEPT !.remote = @ - 1]
    /\ lastStep' = Quiet
    /\ UNCHANGED <<tasks, boards, error, srvTasks, srvSeq, inflight, nextOp, now>>

\* an invitation to the board is accepted, or a member removed: board_updated
\* carries the Board document
RemoteBoardUpdate(boardId) ==
    /\ UNCHANGED otherThanStore
    /\ budget.remote > 0
    /\ inbox' = EmitToBoard(inbox, boardId, "board_updated", About(NoTask, boardId), 0)
    /\ budget' = [budget EXCEPT !.remote = @ - 1]
    /\ lastStep' = Quiet
    /\ UNCHANGED <<tasks, boards, error, srvTasks, srvSeq, inflight, nextOp, now>>

\* socketService.on('task_deleted'): an id the map does not hold is ignored;
\* else the entry is deleted and the id filtered out of the open board's lists
OnTaskDeleted ==
    /\ UNCHANGED otherThanStore
    /\ inbox # <<>>
    /\ Head(inbox).type = "task_deleted"
    /\ LET taskId == Head(inbox).task.id
       IN  IF taskId \notin DOMAIN tasks THEN UNCHANGED <<tasks, boards>>
           ELSE /\ tasks' = Without(tasks, taskId)
                /\ boards' = [b \in DOMAIN boards |->
                                IF b # OpenBoard THEN boards[b]
                                ELSE [c \in DOMAIN boards[b] |->
                                        FilterOut(boards[b][c], taskId)]]
    /\ inbox' = Tail(inbox)
    /\ lastStep' = Step("taskDeleted", [taskId |-> Head(inbox).task.id])
    /\ UNCHANGED <<error, srvTasks, srvSeq, inflight, nextOp, now, budget>>

\* socketService.on('new_comment'): the task of the comment, when the map holds
\* it, gets commentsCount: (commentsCount || 0) + 1
OnNewComment ==
    /\ UNCHANGED otherThanStore
    /\ inbox # <<>>
    /\ Head(inbox).type = "new_comment"
    /\ LET taskId == Head(inbox).task.id
           count == IF "commentsCount" \in DOMAIN Entry(tasks, taskId)
                    THEN tasks[taskId].commentsCount ELSE 0
       IN  tasks' = IF taskId \in DOMAIN tasks
                    THEN With(tasks, taskId, Merge(tasks[taskId], [commentsCount |-> count + 1]))
                    ELSE tasks
    /\ inbox' = Tail(inbox)
    /\ lastStep' = Quiet
    /\ UNCHANGED <<boards, error, srvTasks, srvSeq, inflight, nextOp, now, budget>>

\* the columns of a Board document: the server keeps no task order in them
\* (taskIds is an array of the schema that no route fills)
ServerColumns == [c \in ColumnIds |-> <<>>]

\* socketService.on('board_updated'): boards.map(b => b.id === board.id ?
\* { ...b, ...board } : b), the columns of the payload replacing the board's
OnBoardUpdated ==
    /\ UNCHANGED otherThanStore
    /\ inbox # <<>>
    /\ Head(inbox).type = "board_updated"
    /\ boards' = [b \in DOMAIN boards |->
                    IF b = Head(inbox).task.boardId THEN ServerColumns ELSE boards[b]]
    /\ inbox' = Tail(inbox)
    /\ lastStep' = Quiet
    /\ UNCHANGED <<tasks, error, srvTasks, srvSeq, inflight, nextOp, now, budget>>

\* DELETE /api/tasks/:id sent by another user while the client's socket is in
\* no room (its connection is lost, and socket.io does not send again what was
\* emitted meanwhile): task_deleted does not reach the client
RemoteDeleteUnseen(taskId) ==
    /\ UNCHANGED otherThanStore
    /\ budget.remote > 0
    /\ taskId \in DOMAIN srvTasks
    /\ srvTasks' = Without(srvTasks, taskId)
    /\ budget' = [budget EXCEPT !.remote = @ - 1]
    /\ lastStep' = Quiet
    /\ UNCHANGED <<tasks, boards, error, srvSeq, inflight, nextOp, inbox, now>>

Others ==
    \/ \E t \in DOMAIN srvTasks : RemoteDeleteTask(t)
    \/ \E t \in DOMAIN srvTasks : RemoteComment(t)
    \/ \E b \in ServerBoards : RemoteBoardUpdate(b)
Inbound ==
    \/ OnTaskDeleted
    \/ OnNewComment
    \/ OnBoardUpdated

(* ------------------------------ properties ------------------------------ *)
\* every task of a board of the list is in exactly one column list of that board
InOneColumn(bds, tks) ==
    \A t \in DOMAIN tks :
        Field(tks[t], "boardId") \in DOMAIN bds =>
            Cardinality(ColumnsHolding(bds, tks[t].boardId, t)) = 1

\* C1: after each moveTask call, whatever its arguments, every task id of the
\* board belongs to exactly one column's taskIds list
C1_ExactlyOneColumnAfterMove ==
    lastStep.kind = "moveTask" => InOneColumn(boards, tasks)

\* C2: when the deferred write of a moveTask fails, tasks and boards are again
\* the snapshot taken before that move, and the error is recorded
C2_FailedMoveRestoresSnapshot ==
    lastStep.kind = "moveFail" =>
        /\ tasks = lastStep.info.op.originalState.tasks
        /\ boards = lastStep.info.op.originalState.boards
        /\ error # NoVal

\* the scenario of C2: from todo = [t1, t2], done = [], the failed move of t1 to
\* done ends with todo = [t1, t2], done = []
C2_Witness ==
    /\ lastStep.kind = "moveFail"
    /\ lastStep.info.undone
    /\ lastStep.info.op.taskId = T1
    /\ lastStep.info.op.body = [status |-> "done", position |-> 0]
    /\ boards[OpenBoard]["todo"] = <<T1, T2>>
    /\ boards[OpenBoard]["done"] = <<>>
    /\ tasks[T1].columnId = "todo"
    /\ error # NoVal

\* C3: when the durable create fails with nothing else having touched the store
\* since the call, the projection is again the one that held right before
\* createTask was called, and the error is recorded
C3_FailedCreateRestoresProjection ==
    (lastStep.kind = "createFail" /\ lastStep.info.undisturbed) =>
        /\ tasks = lastStep.info.op.pre.tasks
        /\ boards = lastStep.info.op.pre.boards
        /\ error # NoVal

\* C4: when the durable create succeeds, the temporary id is a key of the map
\* no more and in no column list, and the authoritative id is at every list
\* position the temporary id held
C4_TempIdSwapped ==
    lastStep.kind = "createOk" =>
        LET tempId == lastStep.info.op.tempId
            newId == lastStep.info.newTask.id
        IN  /\ tempId \notin DOMAIN tasks
            /\ \A b \in DOMAIN boards : ColumnsHolding(boards, b, tempId) = {}
            /\ \A pos \in lastStep.info.held :
                  /\ pos[3] <= Len(boards[pos[1]][pos[2]])
                  /\ boards[pos[1]][pos[2]][pos[3]] = newId

\* C5: when the echo of the client's own mutation was merged before the
\* mutation's HTTP response is processed, the task then holds, in every field
\* the mutation wrote, the value of the HTTP response
C5_OriginPrecedence ==
    /\ (lastStep.kind = "updateOk" /\ lastStep.info.op.echoMerged) =>
          \A k \in DOMAIN lastStep.info.op.updates :
              Field(tasks[lastStep.info.op.taskId], k) = lastStep.info.op.resp[k]
    /\ (lastStep.kind = "createOk" /\ lastStep.info.op.echoMerged) =>
          \A k \in DOMAIN lastStep.info.op.resp :
              Field(Entry(tasks, lastStep.info.newTask.id), k) = lastStep.info.op.resp[k]

\* an updateTask whose echo was merged first, and then its response
C5_Witness ==
    /\ lastStep.kind = "updateOk"
    /\ lastStep.info.op.echoMerged
    /\ tasks[lastStep.info.op.taskId].title = lastStep.info.op.resp.title
    /\ tasks[lastStep.info.op.taskId].title = <<"y">>

\* C10: moveTask called twice with the same arguments leaves the columns'
\* membership and order, and the tasks, as the first call left them
C10_IdempotentMove ==
    /\ (lastStep.kind = "moveTask" /\ lastStep.info.repeat) => ~lastStep.info.changed
    /\ \A t \in DOMAIN tasks, src \in ColumnIds, dst \in ColumnIds, i \in 0..MaxIndex :
          LET once == MoveProjection(Projection, t, src, dst, i)
          IN  MoveProjection(once, t, src, dst, i) = once

\* the same moveTask twice in a row, the first of which moved the task
C10_Witness ==
    /\ lastStep.kind = "moveTask"
    /\ lastStep.info.repeat
    /\ lastStep.info.firstChanged
    /\ ~lastStep.info.changed


(* ------------------------- the deadline scheduler ----------------------- *)

\* timer firings (the start-up timeout, the hourly interval) in one behaviour
MaxTicks == 2
\* runs of checkDeadlines that can be executing at once: nothing keeps a timer
\* from firing while an earlier run awaits the database, and nothing keeps a
\* second server process from running the same scan
MaxRuns == 2
RunIds == 1..MaxRuns

Users == {"u1", "u2"}
\* the Task collection as the scheduler's query sees it: due says whether
\* dueDate lies in [now, now + 24h], board whether populate('boardId') finds
\* the board
SchedTasks ==
    [t \in {T1, T2, T3, SrvId(4), SrvId(5)} |->
        [id |-> t,
         userId |-> IF t = T2 THEN "u2" ELSE "u1",
         due |-> t # SrvId(4),
         status |-> IF t = T3 THEN "done" ELSE "todo",
         board |-> t # SrvId(5)]]

\* Task.find({ dueDate: { $gte: now, $lte: tomorrow }, status: { $ne: 'done' } })
DueTasks == {t \in DOMAIN SchedTasks : SchedTasks[t].due /\ SchedTasks[t].status # "done"}
\* the due tasks in the order the loop goes through them
RECURSIVE InIdOrder(_)
InIdOrder(S) ==
    IF S = {} THEN <<>>
    ELSE LET first == CHOOSE a \in S : \A b \in S : a[2] <= b[2]
         IN  <<first>> \o InIdOrder(S \ {first})

DeadlineNotifs(col, userId, taskId) ==
    {n \in col : n.userId = userId /\ n.taskId = taskId /\ n.type = "task_deadline"}

\* a dedupe query that never finds anything
ExistingDeadlineNever(col, task) == FALSE

\* Notification.findOne({ userId: task.userId, taskId: task._id, type: 'task_deadline' })
ExistingDeadline(col, task) == DeadlineNotifs(col, task.userId, task.id) # {}

IdleRun == [pc |-> "idle", queue |-> <<>>]

\* a timer fires: checkDeadlines(io) starts and awaits Task.find
TickStart(r) ==
    /\ UNCHANGED otherThanSched
    /\ ticksLeft > 0
    /\ runs[r].pc = "idle"
    /\ \A q \in RunIds : q < r => runs[q].pc # "idle"
    /\ LET queue == InIdOrder(DueTasks)
       IN  runs' = [runs EXCEPT ![r] = [pc |-> IF queue = <<>> THEN "idle" ELSE "check",
                                         queue |-> queue]]
    /\ ticksLeft' = ticksLeft - 1
    /\ ticksDone' = IF DueTasks = {} THEN ticksDone + 1 ELSE ticksDone
    /\ overlapped' = (overlapped \/ \E q \in RunIds : runs[q].pc # "idle")
    /\ UNCHANGED <<notifs, notifSeq, emitted, removed>>

\* the rest of the loop after the task at the head of the queue
AfterTask(run) ==
    IF Len(run.queue) = 1 THEN IdleRun ELSE [pc |-> "check", queue |-> Tail(run.queue)]

\* the loop body up to the await of Notification.create: the dedupe query and
\* the guard !existing && task.boardId
TickCheck(r) ==
    /\ UNCHANGED otherThanSched
    /\ runs[r].pc = "check"
    /\ LET task == SchedTasks[Head(runs[r].queue)]
       IN  IF ~ExistingDeadline(notifs, task) /\ task.board
           THEN /\ runs' = [runs EXCEPT ![r].pc = "create"]
                /\ UNCHANGED ticksDone
           ELSE /\ runs' = [runs EXCEPT ![r] = AfterTask(runs[r])]
                /\ ticksDone' = IF Len(runs[r].queue) = 1 THEN ticksDone + 1 ELSE ticksDone
    /\ UNCHANGED <<notifs, notifSeq, ticksLeft, emitted, overlapped, removed>>

\* Notification.create({ ..., type: 'task_deadline' }) and the emit of
\* new_notification to user:<task.userId>
TickCreate(r) ==
    /\ UNCHANGED otherThanSched
    /\ runs[r].pc = "create"
    /\ LET task == SchedTasks[Head(runs[r].queue)]
       IN  /\ notifs' = notifs \cup {[id |-> notifSeq + 1, userId |-> task.userId,
                                      taskId |-> task.id, type |-> "task_deadline",
                                      read |-> FALSE]}
           /\ emitted' = [emitted EXCEPT ![task.id] = @ + 1]
    /\ notifSeq' = notifSeq + 1
    /\ runs' = [runs EXCEPT ![r] = AfterTask(runs[r])]
    /\ ticksDone' = IF Len(runs[r].queue) = 1 THEN ticksDone + 1 ELSE ticksDone
    /\ UNCHANGED <<ticksLeft, overlapped, removed>>

\* PUT /api/notifications/:id/read (markAsRead of the store)
MarkRead(user, id) ==
    /\ UNCHANGED otherThanSched
    /\ \E n \in notifs : n.id = id /\ n.userId = user /\ ~n.read
    /\ notifs' = {IF n.id = id /\ n.userId = user THEN [n EXCEPT !.read = TRUE] ELSE n :
                    n \in notifs}
    /\ UNCHANGED <<notifSeq, runs, ticksLeft, emitted, ticksDone, overlapped, removed>>

\* DELETE /api/notifications/:id (deleteNotification of the store)
DeleteNotification(user, id) ==
    /\ UNCHANGED otherThanSched
    /\ \E n \in notifs : n.id = id /\ n.userId = user
    /\ notifs' = {n \in notifs : ~(n.id = id /\ n.userId = user)}
    /\ removed' = TRUE
    /\ UNCHANGED <<notifSeq, runs, ticksLeft, emitted, ticksDone, overlapped>>

\* DELETE /api/notifications/clear-all/all (clearAllNotifications of the store)
ClearAllNotifications(user) ==
    /\ UNCHANGED otherThanSched
    /\ \E n \in notifs : n.userId = user
    /\ notifs' = {n \in notifs : n.userId # user}
    /\ removed' = TRUE
    /\ UNCHANGED <<notifSeq, runs, ticksLeft, emitted, ticksDone, overlapped>>

\* an await of the loop body rejects (the dedupe query, the insert) or the emit
\* throws after the insert (stored): the catch around the whole function logs
\* the error, and the run is over
TickFail(r, stored) ==
    /\ UNCHANGED otherThanSched
    /\ runs[r].pc \in {"check", "create"}
    /\ stored => runs[r].pc = "create"
    /\ LET task == SchedTasks[Head(runs[r].queue)]
       IN  /\ notifs' = IF stored
                        THEN notifs \cup {[id |-> notifSeq + 1, userId |-> task.userId,
                                           taskId |-> task.id, type |-> "task_deadline",
                                           read |-> FALSE]}
                        ELSE notifs
           /\ notifSeq' = IF stored THEN notifSeq + 1 ELSE notifSeq
    /\ runs' = [runs EXCEPT ![r] = IdleRun]
    /\ ticksDone' = ticksDone + 1
    /\ UNCHANGED <<ticksLeft, emitted, overlapped, removed>>

InitSched ==
    /\ notifs = {}
    /\ notifSeq = 0
    /\ runs = [r \in RunIds |-> IdleRun]
    /\ ticksLeft = MaxTicks
    /\ emitted = [t \in DOMAIN SchedTasks |-> 0]
    /\ ticksDone = 0
    /\ overlapped = FALSE
    /\ removed = FALSE

\* no timer will fire
NoSched ==
    /\ notifs = {}
    /\ notifSeq = 0
    /\ runs = [r \in RunIds |-> IdleRun]
    /\ ticksLeft = 0
    /\ emitted = [t \in DOMAIN SchedTasks |-> 0]
    /\ ticksDone = 0
    /\ overlapped = FALSE
    /\ removed = FALSE

Scheduler ==
    \/ \E r \in RunIds : TickStart(r)
    \/ \E r \in RunIds : TickCheck(r)
    \/ \E r \in RunIds : TickCreate(r)
Recipient ==
    \/ \E u \in Users, i \in 1..notifSeq : MarkRead(u, i)
    \/ \E u \in Users, i \in 1..notifSeq : DeleteNotification(u, i)
    \/ \E u \in Users : ClearAllNotifications(u)


(* ------------------------------ the rooms ------------------------------- *)

Sessions == {"s1", "s2"}
\* the user signed in on each socket: the client sends join_user with its own id
UserOf(s) == IF s = "s1" THEN "u1" ELSE "u2"
BoardRoom(boardId) == <<"board", boardId>>
UserRoom(userId) == <<"user", userId>>
\* tasks the server's collection can hold in a behaviour of the rooms
MaxServerTasks == 4

NoEmit == [type |-> NoVal, room |-> NoVal, boardId |-> NoVal, to |-> {}]

\* an emit that reaches every connected socket (io.emit)
RoomMembersEveryone(room) == Sessions

\* the sockets io.to(room).emit(...) delivers to: those that joined the room
RoomMembers(room) == {s \in Sessions : room \in rooms[s]}

\* io.to(`board:${board._id}`).emit(type, payload) for a mutation of board boardId
EmitBoard(type, boardId) ==
    lastEmit' = [type |-> type, room |-> BoardRoom(boardId), boardId |-> boardId,
                 to |-> RoomMembers(BoardRoom(boardId))]

\* socket.on('join_board', boardId => socket.join(`board:${boardId}`))
JoinBoard(s, boardId) ==
    /\ UNCHANGED otherThanRooms
    /\ rooms' = [rooms EXCEPT ![s] = @ \cup {BoardRoom(boardId)}]
    /\ lastEmit' = NoEmit
    /\ UNCHANGED <<srvTasks, srvSeq>>

\* socket.on('join_user', userId => socket.join(`user:${userId}`))
JoinUser(s, userId) ==
    /\ UNCHANGED otherThanRooms
    /\ rooms' = [rooms EXCEPT ![s] = @ \cup {UserRoom(userId)}]
    /\ lastEmit' = NoEmit
    /\ UNCHANGED <<srvTasks, srvSeq>>

\* the socket disconnects and leaves all its rooms; the client's next
\* connection is a new socket that has joined nothing
Disconnect(s) ==
    /\ UNCHANGED otherThanRooms
    /\ rooms[s] # {}
    /\ rooms' = [rooms EXCEPT ![s] = {}]
    /\ lastEmit' = NoEmit
    /\ UNCHANGED <<srvTasks, srvSeq>>

\* POST /api/tasks answered 201: task_created to the room of the board of the body
RouteTaskPost(boardId, columnId) ==
    /\ UNCHANGED otherThanRooms
    /\ srvSeq < MaxServerTasks
    /\ LET doc == NewTaskDoc(SrvId(srvSeq + 1),
                             [title |-> <<"n">>, columnId |-> columnId, boardId |-> boardId])
       IN  /\ srvTasks' = With(srvTasks, doc.id, doc)
           /\ EmitBoard("task_created", doc.boardId)
    /\ srvSeq' = srvSeq + 1
    /\ UNCHANGED rooms

\* PUT /api/tasks/:id answered 200: task_updated to the room of the task's board
RouteTaskPut(taskId, body) ==
    /\ UNCHANGED otherThanRooms
    /\ taskId \in DOMAIN srvTasks
    /\ srvTasks' = With(srvTasks, taskId, PutTaskDoc(srvTasks[taskId], body))
    /\ EmitBoard("task_updated", srvTasks[taskId].boardId)
    /\ UNCHANGED <<srvSeq, rooms>>

\* POST /api/tasks/:id/complete: status done, task_updated to the task's board
RouteTaskComplete(taskId) ==
    /\ UNCHANGED otherThanRooms
    /\ taskId \in DOMAIN srvTasks
    /\ srvTasks' = With(srvTasks, taskId, Merge(srvTasks[taskId], [status |-> "done"]))
    /\ EmitBoard("task_updated", srvTasks[taskId].boardId)
    /\ UNCHANGED <<srvSeq, rooms>>

\* DELETE /api/tasks/:id: task_deleted to the room of the task's board
RouteTaskDelete(taskId) ==
    /\ UNCHANGED otherThanRooms
    /\ taskId \in DOMAIN srvTasks
    /\ srvTasks' = Without(srvTasks, taskId)
    /\ EmitBoard("task_deleted", srvTasks[taskId].boardId)
    /\ UNCHANGED <<srvSeq, rooms>>

\* POST /api/comments/:taskId: new_comment to the room of the task's board
RouteCommentPost(taskId) ==
    /\ UNCHANGED otherThanRooms
    /\ taskId \in DOMAIN srvTasks
    /\ EmitBoard("new_comment", srvTasks[taskId].boardId)
    /\ UNCHANGED <<srvTasks, srvSeq, rooms>>

\* the member removal route: board_updated to the room of the board of the path
RouteMemberRemove(boardId) ==
    /\ UNCHANGED otherThanRooms
    /\ EmitBoard("board_updated", boardId)
    /\ UNCHANGED <<srvTasks, srvSeq, rooms>>

\* the invite acceptance route: board_updated to the room of the invite's board
RouteInviteAccept(boardId) ==
    /\ UNCHANGED otherThanRooms
    /\ EmitBoard("board_updated", boardId)
    /\ UNCHANGED <<srvTasks, srvSeq, rooms>>

InitRooms ==
    /\ rooms = [s \in Sessions |-> {}]
    /\ lastEmit = NoEmit

Sockets ==
    \/ \E s \in Sessions, b \in ServerBoards : JoinBoard(s, b)
    \/ \E s \in Sessions : JoinUser(s, UserOf(s))
    \/ \E s \in Sessions : Disconnect(s)
Routes ==
    \/ \E b \in ServerBoards, c \in ColumnIds : RouteTaskPost(b, c)
    \/ \E t \in DOMAIN srvTasks, c \in ColumnIds :
          RouteTaskPut(t, [status |-> c, position |-> 0])
    \/ \E t \in DOMAIN srvTasks : RouteTaskComplete(t)
    \/ \E t \in DOMAIN srvTasks : RouteTaskDelete(t)
    \/ \E t \in DOMAIN srvTasks : RouteCommentPost(t)
    \/ \E b \in ServerBoards : RouteMemberRemove(b)
    \/ \E b \in ServerBoards : RouteInviteAccept(b)

(* -------------------------- the client's session ------------------------ *)
\* the socket whose client is the store of this model, and its user
ClientSession == "s1"
ClientUser == UserOf(ClientSession)
\* emits that can wait for the server at one time
MaxQueue == 2

JoinUserMsg(userId) == [event |-> "join_user", arg |-> userId]
JoinBoardMsg(boardId) == [event |-> "join_board", arg |-> boardId]

\* nobody is signed in: socketService.socket is null
NoSession ==
    /\ link = "none"
    /\ sendq = <<>>
    /\ current = NoVal
    /\ lostOnce = FALSE
    /\ missedLost = FALSE
    /\ missedOther = FALSE
    /\ leaked = 0
    /\ listeners = 0

\* what socket.on('connect', ...) of the client sends when the transport is up:
\* the handler logs and sends nothing
OnConnectSends(userId, boardId) == <<>>

\* sockets the client can have replaced, and registrations of the listeners on
\* one socket
MaxLeaked == 1
MaxListeners == 2

\* the effect of AuthContext on every change of the user object while signed
\* in: initializeSocket(token, user.id). connect returns when the socket is
\* connected; else io(...) creates a socket and assigns it to this.socket,
\* and a socket that was there (connecting, or reconnecting after a loss) is
\* not disconnected. Then join_user and, with a board open, join_board are
\* emitted (buffered until the connection) and the listeners registered.
InitializeSocket ==
    /\ UNCHANGED <<storeVars, schedVars, roomVars, boardVars, noticeVars, evictVars>>
    /\ LET joins == <<JoinUserMsg(ClientUser)>>
                    \o (IF current = NoVal THEN <<>> ELSE <<JoinBoardMsg(current)>>)
       IN  IF link = "connected"
           THEN /\ Len(sendq \o joins) <= MaxQueue
                /\ listeners < MaxListeners
                /\ sendq' = sendq \o joins
                /\ listeners' = listeners + 1
                /\ UNCHANGED <<link, leaked>>
           ELSE /\ link # "none" => leaked < MaxLeaked
                /\ link' = "connecting"
                /\ sendq' = joins
                /\ leaked' = IF link = "none" THEN leaked ELSE leaked + 1
                /\ listeners' = 1
    /\ UNCHANGED <<current, lostOnce, missedLost, missedOther>>

\* setCurrentBoard(boardId): currentBoardId is set and join_board is emitted
\* when there is a socket
SetCurrentBoard(boardId) ==
    /\ UNCHANGED <<storeVars, schedVars, roomVars, boardVars, socketVars, noticeVars, evictVars>>
    /\ current # boardId
    /\ Len(sendq) < MaxQueue
    /\ current' = boardId
    /\ sendq' = IF link = "none" THEN sendq ELSE Append(sendq, JoinBoardMsg(boardId))
    /\ UNCHANGED <<link, lostOnce, missedLost, missedOther>>

\* the transport reaches the connected state, the first time or after a loss:
\* the server has a new socket for it, which is in no room
TransportConnect ==
    /\ UNCHANGED <<storeVars, schedVars, boardVars, socketVars, noticeVars, evictVars>>
    /\ link \in {"connecting", "lost"}
    /\ link' = "connected"
    /\ rooms' = [rooms EXCEPT ![ClientSession] = {}]
    /\ lastEmit' = NoEmit
    /\ sendq' = sendq \o OnConnectSends(ClientUser, current)
    /\ UNCHANGED <<current, lostOnce, missedLost, missedOther>>

\* the server handles the client's next emit: join_board and join_user add the
\* socket to the room they name
ServerReceive ==
    /\ UNCHANGED <<storeVars, schedVars, boardVars, socketVars, noticeVars, evictVars>>
    /\ link = "connected"
    /\ sendq # <<>>
    /\ LET msg == Head(sendq)
           room == IF msg.event = "join_board" THEN BoardRoom(msg.arg)
                   ELSE UserRoom(msg.arg)
       IN  rooms' = [rooms EXCEPT ![ClientSession] = @ \cup {room}]
    /\ lastEmit' = NoEmit
    /\ sendq' = Tail(sendq)
    /\ UNCHANGED <<link, current, lostOnce, missedLost, missedOther>>

\* the connection drops without the client asking for it: the server's socket
\* is gone with its rooms, the client's socket stays and reconnects by itself;
\* what was emitted and not handled stays buffered
ConnectionLost ==
    /\ UNCHANGED <<storeVars, schedVars, boardVars, socketVars, noticeVars, evictVars>>
    /\ link = "connected"
    /\ link' = "lost"
    /\ rooms' = [rooms EXCEPT ![ClientSession] = {}]
    /\ lastEmit' = NoEmit
    /\ lostOnce' = TRUE
    /\ UNCHANGED <<sendq, current, missedLost, missedOther>>

\* the effect of AuthContext on sign-out: socketService.disconnect()
SignOut ==
    /\ UNCHANGED <<storeVars, schedVars, boardVars, leaked, noticeVars, evictVars>>
    /\ link # "none"
    /\ link' = "none"
    /\ listeners' = 0
    /\ sendq' = <<>>
    /\ rooms' = [rooms EXCEPT ![ClientSession] = {}]
    /\ lastEmit' = NoEmit
    /\ UNCHANGED <<current, lostOnce, missedLost, missedOther>>

\* PUT /api/tasks/:id sent by another user: task_updated goes to the room of
\* the task's board, and so to this client when its socket is in that room
SessionRemotePut(taskId, body) ==
    /\ UNCHANGED <<schedVars, roomVars, boardVars, socketVars, noticeVars, evictVars>>
    /\ budget.remote > 0
    /\ taskId \in DOMAIN srvTasks
    /\ LET doc == PutTaskDoc(srvTasks[taskId], body)
           reached == ClientSession \in RoomMembers(BoardRoom(doc.boardId))
           wanted == doc.boardId = current
       IN  /\ srvTasks' = With(srvTasks, doc.id, doc)
           /\ inbox' = IF reached
                       THEN Append(inbox, [type |-> "task_updated", task |-> doc, origin |-> 0])
                       ELSE inbox
           /\ missedLost' = (missedLost \/ (wanted /\ ~reached /\ link = "lost"))
           /\ missedOther' = (missedOther \/ (~reached /\ ~(wanted /\ link = "lost")))
    /\ budget' = [budget EXCEPT !.remote = @ - 1]
    /\ lastStep' = Quiet
    /\ UNCHANGED <<tasks, boards, error, srvSeq, inflight, nextOp, now>>
    /\ UNCHANGED <<link, sendq, current, lostOnce>>

\* socketService.on('task_updated') with the currentBoardId of this client
SessionOnTaskUpdated ==
    /\ UNCHANGED <<schedVars, roomVars, boardVars, socketVars, noticeVars, evictVars>>
    /\ inbox # <<>>
    /\ Head(inbox).type = "task_updated"
    /\ LET ev == Head(inbox)
       IN  /\ tasks' = IF ev.task.boardId = current
                       THEN With(tasks, ev.task.id, Merge(Entry(tasks, ev.task.id), ev.task))
                       ELSE tasks
           /\ missedOther' = (missedOther \/ ev.task.boardId # current)
    /\ UNCHANGED <<link, sendq, current, lostOnce, missedLost>>
    /\ inbox' = Tail(inbox)
    /\ lastStep' = Quiet
    /\ UNCHANGED <<boards, error, srvTasks, srvSeq, inflight, nextOp, now, budget>>

Session ==
    \/ InitializeSocket
    \/ \E b \in ServerBoards : SetCurrentBoard(b)
    \/ TransportConnect
    \/ ServerReceive
    \/ ConnectionLost
    \/ SignOut
    \/ \E t \in DOMAIN srvTasks, b \in RemoteBodies : SessionRemotePut(t, b)

(* ------------------- joins and the rooms of the users ------------------- *)
\* the users GET /api/boards/:id answers: the owner and the members of a
\* private board, everybody for a public one. The open board is private and
\* u1's, the other board is public.
BoardAccess(boardId) == IF boardId = OpenBoard THEN {"u1"} ELSE Users

\* io.to(`user:${userId}`).emit(type, payload)
EmitUser(type, userId) ==
    lastEmit' = [type |-> type, room |-> UserRoom(userId), boardId |-> NoVal,
                 to |-> RoomMembers(UserRoom(userId))]

\* a notification is created for a user and new_notification goes to user:<id>
\* (the task routes, the board routes, the comment route, checkDeadlines)
NotifyUser(userId) ==
    /\ UNCHANGED otherThanRooms
    /\ EmitUser("new_notification", userId)
    /\ UNCHANGED <<srvTasks, srvSeq, rooms>>

\* the member removal route tells the removed member: you_were_removed goes to
\* user:<memberId>
RemovedNotice(memberId) ==
    /\ UNCHANGED otherThanRooms
    /\ EmitUser("you_were_removed", memberId)
    /\ UNCHANGED <<srvTasks, srvSeq, rooms>>

\* what a socket can send: the handlers take any board id and any user id
SocketsAny ==
    \/ \E s \in Sessions, b \in ServerBoards : JoinBoard(s, b)
    \/ \E s \in Sessions, u \in Users : JoinUser(s, u)
    \/ \E s \in Sessions : Disconnect(s)
UserEmits ==
    \/ \E u \in Users : NotifyUser(u)
    \/ \E u \in Users : RemovedNotice(u)
    \/ \E b \in ServerBoards : RouteMemberRemove(b)
    \/ \E b \in ServerBoards : RouteInviteAccept(b)

(* ------------------- the board routes and their emits ------------------- *)
\* requests to the routes of boards, members and tasks in one behaviour
MaxRequests == 3

\* the e-mail address of a registered user, and one no user has registered with
EmailOf(u) == <<"mail", u>>
Unregistered == EmailOf("x")
\* User.findOne({ email }): the user registered with the address, if any
UserByEmail(email) == IF \E u \in Users : EmailOf(u) = email
                      THEN CHOOSE u \in Users : EmailOf(u) = email ELSE NoVal

BoardOwner == "u1"
InitBoardDoc ==
    [exists |-> TRUE, name |-> <<"b">>, isPublic |-> FALSE, ownerId |-> BoardOwner,
     members |-> <<>>]

\* what the routes of this section leave alone
otherThanRoutes ==
    <<tasks, boards, error, inflight, nextOp, inbox, now, budget, lastStep, runs, ticksLeft,
      emitted, ticksDone, overlapped, removed, roomVars, sessionVars, socketVars, noticeVars, evictVars>>

\* board.members.find(m => ...): the index of the first of the members at the
\* indices that pass the test, 0 for none
FindMember(passing) ==
    IF passing = {} THEN 0 ELSE CHOOSE i \in passing : \A j \in passing : i <= j

\* the user ids of the members of the list, in its order
MemberIds(ms) == [i \in 1..Len(ms) |-> ms[i].id]

\* Notification.create for each recipient of the list, except the one whose
\* insert rejects (failing = 0: none does)
StoredFor(recipients, type, taskId, failing) ==
    {[id |-> notifSeq + i, userId |-> recipients[i], taskId |-> taskId, type |-> type,
      read |-> FALSE] : i \in (1..Len(recipients)) \ {failing}}

\* io.to(`user:${notif.userId}`).emit('new_notification', notif) for each
EmitsOf(stored) ==
    {[type |-> "new_notification", room |-> UserRoom(n.userId), notif |-> n.id] : n \in stored}
\* io.to(`board:${board._id}`).emit(type, ...)
BoardEmit(type) == [type |-> type, room |-> BoardRoom(OpenBoard), notif |-> 0]
UserEmit(type, userId) == [type |-> type, room |-> UserRoom(userId), notif |-> 0]

\* the request is answered: what it stored in the Notification collection, what
\* it emitted, and what the next request finds
Answer(route, status, by, target, attempted, stored, emits) ==
    /\ requestsLeft' = requestsLeft - 1
    /\ notifs' = notifs \cup stored
    /\ notifSeq' = notifSeq + attempted
    /\ lastRoute' = [route |-> route, ok |-> status \in {200, 201}, status |-> status,
                     by |-> by, target |-> target, before |-> srvBoard,
                     stored |-> stored, emits |-> emits]

\* the route returns an error status before it wrote anything
Refuse(route, status, by, target) ==
    /\ Answer(route, status, by, target, 0, {}, {})
    /\ UNCHANGED <<srvBoard, srvTasks, srvSeq>>

\* POST /api/invites: the owner invites an address no user has registered with;
\* a placeholder member without id is pushed unless the address is a member's
InvitePost(by, email, sent) ==
    /\ UNCHANGED otherThanRoutes
    /\ requestsLeft > 0
    /\ IF ~srvBoard.exists THEN Refuse("invite", 404, by, email)
       ELSE IF by # srvBoard.ownerId THEN Refuse("invite", 403, by, email)
       ELSE IF UserByEmail(email) # NoVal THEN Refuse("invite", 400, by, email)
       ELSE /\ srvBoard' =
                 IF \E i \in 1..Len(srvBoard.members) : srvBoard.members[i].email = email
                 THEN srvBoard
                 ELSE [srvBoard EXCEPT !.members =
                          Append(@, [id |-> NoVal, email |-> email, role |-> "member",
                                     status |-> "pending"])]
            /\ Answer("invite", IF sent THEN 200 ELSE 500, by, email, 0, {}, {})
            /\ UNCHANGED <<srvTasks, srvSeq>>

\* PUT /api/boards/:id: the owner changes name, description, visibility, columns
BoardPut(by, body) ==
    /\ UNCHANGED otherThanRoutes
    /\ requestsLeft > 0
    /\ IF ~srvBoard.exists THEN Refuse("board_put", 404, by, NoVal)
       ELSE IF by # srvBoard.ownerId THEN Refuse("board_put", 403, by, NoVal)
       ELSE /\ srvBoard' =
                 Merge(srvBoard,
                       [k \in DOMAIN body |-> IF k = "name" THEN Trim(body[k]) ELSE body[k]])
            /\ Answer("board_put", 200, by, NoVal, 0, {}, {})
            /\ UNCHANGED <<srvTasks, srvSeq>>

\* DELETE /api/boards/:id: the owner deletes the board and its tasks
BoardDelete(by) ==
    /\ UNCHANGED otherThanRoutes
    /\ requestsLeft > 0
    /\ IF ~srvBoard.exists THEN Refuse("board_delete", 404, by, NoVal)
       ELSE IF by # srvBoard.ownerId THEN Refuse("board_delete", 403, by, NoVal)
       ELSE /\ srvTasks' = [t \in {i \in DOMAIN srvTasks : srvTasks[i].boardId # OpenBoard} |->
                               srvTasks[t]]
            /\ srvBoard' = [srvBoard EXCEPT !.exists = FALSE]
            /\ Answer("board_delete", 200, by, NoVal, 0, {}, {})
            /\ UNCHANGED srvSeq

\* POST /api/boards/:id/members: the owner adds a registered user as a pending
\* member; the user gets a notification
MemberAdd(by, email) ==
    /\ UNCHANGED otherThanRoutes
    /\ requestsLeft > 0
    /\ LET u == UserByEmail(email)
           stored == StoredFor(<<u>>, "added_to_board", NoTask, 0)
       IN  IF ~srvBoard.exists THEN Refuse("member_add", 404, by, email)
           ELSE IF by # srvBoard.ownerId THEN Refuse("member_add", 403, by, email)
           ELSE IF u = NoVal THEN Refuse("member_add", 404, by, email)
           ELSE IF FindMember({k \in 1..Len(srvBoard.members) : srvBoard.members[k].id = u}) # 0 \/ u = srvBoard.ownerId
                THEN Refuse("member_add", 400, by, email)
           ELSE /\ srvBoard' = [srvBoard EXCEPT !.members =
                                   Append(@, [id |-> u, email |-> email, role |-> "member",
                                              status |-> "pending"])]
                /\ Answer("member_add", 200, by, u, 1, stored, EmitsOf(stored))
                /\ UNCHANGED <<srvTasks, srvSeq>>

\* DELETE /api/boards/:id/members/:memberId: the owner removes a member, or a
\* user removes themselves; board.members.filter(m => m.id && !m.id.equals(memberId))
MemberRemove(by, memberId) ==
    /\ UNCHANGED otherThanRoutes
    /\ requestsLeft > 0
    /\ IF ~srvBoard.exists THEN Refuse("member_remove", 404, by, memberId)
       ELSE IF by # srvBoard.ownerId /\ by # memberId
            THEN Refuse("member_remove", 403, by, memberId)
       ELSE LET removedMember == FindMember({k \in 1..Len(srvBoard.members) : srvBoard.members[k].id = memberId})
                left == SelectSeq(srvBoard.members,
                                  LAMBDA m : m.id # NoVal /\ m.id # memberId)
                recipients ==
                    (IF srvBoard.ownerId # memberId THEN <<srvBoard.ownerId>> ELSE <<>>)
                    \o MemberIds(SelectSeq(left, LAMBDA m : m.role = "admin"))
                type == IF by = memberId THEN "member_left" ELSE "member_removed"
                stored == StoredFor(recipients, type, NoTask, 0)
            IN  /\ srvBoard' = [srvBoard EXCEPT !.members = left]
                /\ Answer("member_remove", 200, by, memberId, Len(recipients), stored,
                          EmitsOf(stored)
                          \cup (IF by # memberId /\ removedMember # 0
                                THEN {UserEmit("you_were_removed", memberId)} ELSE {})
                          \cup {BoardEmit("board_updated")})
                /\ UNCHANGED <<srvTasks, srvSeq>>

\* PUT /api/boards/:id/members/:memberId: the owner sets a member's role; a
\* notification is stored for the member
MemberRolePut(by, memberId, role) ==
    /\ UNCHANGED otherThanRoutes
    /\ requestsLeft > 0
    /\ LET i == FindMember({k \in 1..Len(srvBoard.members) : srvBoard.members[k].id = memberId})
       IN  IF ~srvBoard.exists THEN Refuse("member_role", 404, by, memberId)
           ELSE IF by # srvBoard.ownerId THEN Refuse("member_role", 403, by, memberId)
           ELSE IF i = 0 THEN Refuse("member_role", 404, by, memberId)
           ELSE /\ srvBoard' = [srvBoard EXCEPT !.members[i].role = role]
                /\ Answer("member_role", 200, by, memberId, 1,
                          StoredFor(<<memberId>>, "role_changed", NoTask, 0), {})
                /\ UNCHANGED <<srvTasks, srvSeq>>

\* the member entry of the requester: by id, else by e-mail address
InvitedEntry(ms, by) ==
    IF FindMember({k \in 1..Len(ms) : ms[k].id = by}) # 0
    THEN FindMember({k \in 1..Len(ms) : ms[k].id = by})
    ELSE FindMember({k \in 1..Len(ms) : ms[k].email = EmailOf(by)})

\* POST /api/boards/:id/members/accept: the requester's entry becomes active;
\* the owner gets a notification, the board room board_updated
InviteAccept(by) ==
    /\ UNCHANGED otherThanRoutes
    /\ requestsLeft > 0
    /\ LET i == InvitedEntry(srvBoard.members, by)
           stored == StoredFor(<<srvBoard.ownerId>>, "board_invite", NoTask, 0)
       IN  IF ~srvBoard.exists THEN Refuse("accept", 404, by, by)
           ELSE IF i = 0 THEN Refuse("accept", 404, by, by)
           ELSE /\ srvBoard' = [srvBoard EXCEPT !.members[i].status = "active",
                                                !.members[i].id = by]
                /\ Answer("accept", 200, by, by, 1, stored,
                          EmitsOf(stored) \cup {BoardEmit("board_updated")})
                /\ UNCHANGED <<srvTasks, srvSeq>>

\* POST /api/boards/:id/members/reject: the requester's entry becomes rejected
InviteReject(by) ==
    /\ UNCHANGED otherThanRoutes
    /\ requestsLeft > 0
    /\ LET i == FindMember({k \in 1..Len(srvBoard.members) : srvBoard.members[k].id = by \/ srvBoard.members[k].email = EmailOf(by)})
       IN  IF ~srvBoard.exists THEN Refuse("reject", 404, by, by)
           ELSE IF i = 0 THEN Refuse("reject", 404, by, by)
           ELSE /\ srvBoard' = [srvBoard EXCEPT !.members[i].status = "rejected"]
                /\ Answer("reject", 200, by, by, 0, {}, {})
                /\ UNCHANGED <<srvTasks, srvSeq>>

\* isOwner || (userMember && userMember.role === 'admin') of the task routes
IsBoardAdmin(by) ==
    \/ by = srvBoard.ownerId
    \/ FindMember({k \in 1..Len(srvBoard.members) : srvBoard.members[k].id = by /\ srvBoard.members[k].role = "admin"}) # 0

\* POST /api/tasks with its notifications: one for the owner and one for each
\* active member, awaited together (Promise.all) before anything is emitted;
\* when an insert rejects the catch answers 500
TaskPost(by, failing) ==
    /\ UNCHANGED otherThanRoutes
    /\ requestsLeft > 0
    /\ IF ~srvBoard.exists THEN Refuse("task_post", 404, by, NoVal)
       ELSE IF ~IsBoardAdmin(by) THEN Refuse("task_post", 403, by, NoVal)
       ELSE LET doc == NewTaskDoc(SrvId(srvSeq + 1),
                                  [title |-> <<"n">>, boardId |-> OpenBoard])
                recipients ==
                    <<srvBoard.ownerId>>
                    \o MemberIds(SelectSeq(srvBoard.members, LAMBDA m : m.status = "active" /\ m.id # NoVal))
                stored == StoredFor(recipients, "task_created", doc.id, failing)
            IN  /\ failing <= Len(recipients)
                /\ srvTasks' = With(srvTasks, doc.id, doc)
                /\ srvSeq' = srvSeq + 1
                /\ IF failing = 0
                   THEN Answer("task_post", 201, by, doc.id, Len(recipients), stored,
                               {BoardEmit("task_created")} \cup EmitsOf(stored))
                   ELSE Answer("task_post", 500, by, doc.id, Len(recipients), stored, {})
                /\ UNCHANGED srvBoard

\* DELETE /api/tasks/:id with its notification: one, for the requester, sent to
\* the rooms of the owner and of every admin
TaskDelete(by, taskId) ==
    /\ UNCHANGED otherThanRoutes
    /\ requestsLeft > 0
    /\ IF taskId \notin DOMAIN srvTasks THEN Refuse("task_delete", 404, by, taskId)
       ELSE IF ~srvBoard.exists THEN Refuse("task_delete", 404, by, taskId)
       ELSE IF ~IsBoardAdmin(by) THEN Refuse("task_delete", 403, by, taskId)
       ELSE LET stored == StoredFor(<<by>>, "task_deleted", NoTask, 0)
                n == CHOOSE x \in stored : TRUE
                rooms_ == <<srvBoard.ownerId>>
                          \o MemberIds(SelectSeq(srvBoard.members, LAMBDA m : m.role = "admin" /\ m.id # NoVal))
            IN  /\ srvTasks' = Without(srvTasks, taskId)
                /\ Answer("task_delete", 200, by, taskId, 1, stored,
                          {BoardEmit("task_deleted")}
                          \cup {[type |-> "new_notification", room |-> UserRoom(rooms_[i]),
                                 notif |-> n.id] : i \in 1..Len(rooms_)})
                /\ UNCHANGED <<srvBoard, srvSeq>>

NoRoute == [route |-> NoVal, ok |-> FALSE, status |-> 0, by |-> NoVal, target |-> NoVal,
            before |-> InitBoardDoc, stored |-> {}, emits |-> {}]

InitRequests(n) ==
    /\ srvBoard = InitBoardDoc
    /\ requestsLeft = n
    /\ lastRoute = NoRoute
\* no request will be sent to these routes
NoRequests == InitRequests(0)

BoardRequests ==
    \/ \E by \in Users, sent \in BOOLEAN : InvitePost(by, Unregistered, sent)
    \/ \E by \in Users, body \in {[name |-> <<" ", "c", " ">>], [isPublic |-> TRUE]} :
          BoardPut(by, body)
    \/ \E by \in Users : BoardDelete(by)
    \/ \E by \in Users, e \in {EmailOf("u2"), Unregistered} : MemberAdd(by, e)
    \/ \E by \in Users, m \in Users : MemberRemove(by, m)
    \/ \E by \in Users, m \in Users, role \in {"admin", "member"} : MemberRolePut(by, m, role)
    \/ \E by \in Users : InviteAccept(by)
    \/ \E by \in Users : InviteReject(by)
    \/ \E by \in Users, failing \in 0..2 : TaskPost(by, failing)
    \/ \E by \in Users, t \in {T1, T3} : TaskDelete(by, t)

(* -------------- notifications and comments on the client ---------------- *)
\* notifications the server creates for the client's user, and
\* fetchNotifications calls, in one behaviour
MaxNotices == 2
MaxNoticeFetches == 2

\* the client's user was removed from no board
NoEvictions == evicted = {}

\* no task has a comment
NoComments == [t \in {T1, T2, T3} |-> 0]

NoNotices ==
    /\ notifications = <<>>
    /\ srvNotifications = <<>>
    /\ pushed = <<>>
    /\ noticeFetch = [o \in {} |-> NoVal]
    /\ noticesLeft = 0
    /\ srvComments = NoComments
InitNotices(n) ==
    /\ notifications = <<>>
    /\ srvNotifications = <<>>
    /\ pushed = <<>>
    /\ noticeFetch = [o \in {} |-> NoVal]
    /\ noticesLeft = n
    /\ srvComments = NoComments

\* what the session actions and the store leave alone when a step is about
\* notifications
otherThanNotices ==
    <<storeVars, schedVars, roomVars, sessionVars, boardVars, socketVars, evictVars>>

\* a sequence in reverse order
Reverse(s) == [i \in 1..Len(s) |-> s[Len(s) + 1 - i]]
\* n copies of x
Copies(n, x) == [i \in 1..n |-> x]

\* a route or the scheduler creates a Notification for the client's user and
\* emits new_notification to user:<id>: the event reaches the client when its
\* socket is in that room
ServerNotify ==
    /\ UNCHANGED otherThanNotices
    /\ noticesLeft > 0
    /\ LET id == Len(srvNotifications) + 1
       IN  /\ srvNotifications' = Append(srvNotifications, id)
           /\ pushed' = IF ClientSession \in RoomMembers(UserRoom(ClientUser))
                        THEN Append(pushed, id) ELSE pushed
    /\ noticesLeft' = noticesLeft - 1
    /\ UNCHANGED <<notifications, noticeFetch, srvComments>>

\* socketService.on('new_notification'): every registration of the listener
\* on the socket runs, and each puts the notification at the head of the list
OnNewNotification ==
    /\ UNCHANGED <<schedVars, roomVars, sessionVars, boardVars, socketVars, evictVars>>
    /\ pushed # <<>>
    /\ notifications' = Copies(listeners, Head(pushed)) \o notifications
    /\ pushed' = Tail(pushed)
    /\ lastStep' = Step("newNotification",
                        [id |-> Head(pushed), before |-> Len(notifications),
                         after |-> Len(notifications')])
    /\ UNCHANGED <<tasks, boards, error, srvTasks, srvSeq, inflight, nextOp, inbox, now,
                   budget>>
    /\ UNCHANGED <<srvNotifications, noticeFetch, noticesLeft, srvComments>>

\* fetchNotifications(): GET /api/notifications is sent
FetchNotifications ==
    /\ UNCHANGED otherThanNotices
    /\ Cardinality(DOMAIN noticeFetch) < MaxNoticeFetches
    /\ LET o == CHOOSE k \in 1..MaxNoticeFetches : k \notin DOMAIN noticeFetch
       IN  noticeFetch' = With(noticeFetch, o, [stage |-> "sent", data |-> <<>>])
    /\ UNCHANGED <<notifications, srvNotifications, pushed, noticesLeft, srvComments>>

\* GET /api/notifications: the user's notifications, newest first (the limit
\* of 50 is above what a behaviour creates)
ServerFetchNotifications(o) ==
    /\ UNCHANGED otherThanNotices
    /\ o \in DOMAIN noticeFetch
    /\ noticeFetch[o].stage = "sent"
    /\ noticeFetch' = With(noticeFetch, o,
                           [stage |-> "answered", data |-> Reverse(srvNotifications)])
    /\ UNCHANGED <<notifications, srvNotifications, pushed, noticesLeft, srvComments>>

\* the response of fetchNotifications lands: set({ notifications })
FetchNotificationsOk(o) ==
    /\ UNCHANGED otherThanNotices
    /\ o \in DOMAIN noticeFetch
    /\ noticeFetch[o].stage = "answered"
    /\ notifications' = noticeFetch[o].data
    /\ noticeFetch' = Without(noticeFetch, o)
    /\ UNCHANGED <<srvNotifications, pushed, noticesLeft, srvComments>>

\* the request of fetchNotifications fails: the catch logs and nothing changes
FetchNotificationsFail(o) ==
    /\ UNCHANGED otherThanNotices
    /\ o \in DOMAIN noticeFetch
    /\ noticeFetch[o].stage = "sent"
    /\ noticeFetch' = Without(noticeFetch, o)
    /\ UNCHANGED <<notifications, srvNotifications, pushed, noticesLeft, srvComments>>

\* the new_comment listener run once on the task map
CommentCounted(tks, taskId) ==
    IF taskId \notin DOMAIN tks THEN tks
    ELSE LET count == IF "commentsCount" \in DOMAIN tks[taskId]
                      THEN tks[taskId].commentsCount ELSE 0
         IN  With(tks, taskId, Merge(tks[taskId], [commentsCount |-> count + 1]))
\* and run by each of n registrations
RECURSIVE CommentCountedTimes(_, _, _)
CommentCountedTimes(tks, taskId, n) ==
    IF n = 0 THEN tks ELSE CommentCountedTimes(CommentCounted(tks, taskId), taskId, n - 1)
\* commentsCount || 0
CommentsCount(tks, taskId) ==
    IF taskId \in DOMAIN tks /\ "commentsCount" \in DOMAIN tks[taskId]
    THEN tks[taskId].commentsCount ELSE 0

\* POST /api/comments/:taskId sent by another user: new_comment goes to the
\* room of the task's board, and so to this client when its socket is in it
SessionRemoteComment(taskId) ==
    /\ UNCHANGED <<schedVars, roomVars, sessionVars, boardVars, socketVars, noticeVars, evictVars>>
    /\ budget.remote > 0
    /\ taskId \in DOMAIN srvTasks
    /\ inbox' = IF ClientSession \in RoomMembers(BoardRoom(srvTasks[taskId].boardId))
                THEN Append(inbox, [type |-> "new_comment",
                                    task |-> About(taskId, srvTasks[taskId].boardId),
                                    origin |-> 0])
                ELSE inbox
    /\ budget' = [budget EXCEPT !.remote = @ - 1]
    /\ lastStep' = Quiet
    /\ UNCHANGED <<tasks, boards, error, srvTasks, srvSeq, inflight, nextOp, now>>

\* socketService.on('new_comment'): every registration of the listener on the
\* socket runs
SessionOnNewComment ==
    /\ UNCHANGED <<schedVars, roomVars, sessionVars, boardVars, socketVars, noticeVars, evictVars>>
    /\ inbox # <<>>
    /\ Head(inbox).type = "new_comment"
    /\ LET taskId == Head(inbox).task.id
       IN  /\ tasks' = CommentCountedTimes(tasks, taskId, listeners)
           /\ lastStep' = Step("newComment",
                               [taskId |-> taskId, known |-> taskId \in DOMAIN tasks,
                                before |-> CommentsCount(tasks, taskId),
                                after |-> CommentsCount(tasks', taskId)])
    /\ inbox' = Tail(inbox)
    /\ UNCHANGED <<boards, error, srvTasks, srvSeq, inflight, nextOp, now, budget>>

(* ------------------------ removal from a board -------------------------- *)
\* an event pushed to the client's socket when it is in the room
PushIf(box, room, type, payload) ==
    IF ClientSession \in RoomMembers(room)
    THEN Append(box, [type |-> type, task |-> payload, origin |-> 0])
    ELSE box

\* DELETE /api/boards/:id/members/:memberId sent by the owner of the other
\* board for the client's user, who is a member of it: the member entry is
\* filtered out, you_were_removed goes to user:<memberId> and board_updated to
\* board:<id>; no socket is taken out of a room
EvictClient ==
    /\ UNCHANGED <<schedVars, roomVars, sessionVars, boardVars, socketVars, noticeVars>>
    /\ OtherBoard \notin evicted
    /\ evicted' = evicted \cup {OtherBoard}
    /\ inbox' = PushIf(PushIf(inbox, UserRoom(ClientUser), "you_were_removed",
                              About(NoTask, OtherBoard)),
                       BoardRoom(OtherBoard), "board_updated", About(NoTask, OtherBoard))
    /\ lastStep' = Quiet
    /\ UNCHANGED <<tasks, boards, error, srvTasks, srvSeq, inflight, nextOp, now, budget>>

\* socketService.on('you_were_removed'): the board leaves the list, and
\* currentBoardId is reset when it was that board
OnYouWereRemoved ==
    /\ UNCHANGED <<schedVars, roomVars, boardVars, socketVars, noticeVars, evictVars>>
    /\ inbox # <<>>
    /\ Head(inbox).type = "you_were_removed"
    /\ LET boardId == Head(inbox).task.boardId
       IN  /\ boards' = [b \in (DOMAIN boards) \ {boardId} |-> boards[b]]
           /\ current' = IF current = boardId THEN NoVal ELSE current
           /\ lastStep' = Step("youWereRemoved", [boardId |-> boardId])
    /\ inbox' = Tail(inbox)
    /\ UNCHANGED <<tasks, error, srvTasks, srvSeq, inflight, nextOp, now, budget>>
    /\ UNCHANGED <<link, sendq, lostOnce, missedLost, missedOther>>

(* ------------------------------ addComment ------------------------------ *)
\* addComment calls in one behaviour
MaxComments == 2

\* addComment(taskId, text): POST /api/comments/:taskId is sent
AddComment(taskId) ==
    /\ UNCHANGED otherThanStore
    /\ budget.comment > 0
    /\ taskId \in DOMAIN tasks
    /\ inflight' = With(inflight, nextOp,
                        [kind |-> "comment", stage |-> "sent", taskId |-> taskId])
    /\ nextOp' = nextOp + 1
    /\ budget' = [budget EXCEPT !.comment = @ - 1]
    /\ lastStep' = Quiet
    /\ UNCHANGED <<tasks, boards, error, srvTasks, srvSeq, inbox, now>>

\* POST /api/comments/:taskId by a member of the board: 404 for a task that is
\* gone; else the Comment is created and new_comment goes to the room of the
\* task's board, the commenter's socket included, before the 201
ServerCommentPost(o) ==
    /\ UNCHANGED <<schedVars, roomVars, sessionVars, boardVars, socketVars, evictVars>>
    /\ o \in DOMAIN inflight
    /\ inflight[o].kind = "comment"
    /\ inflight[o].stage = "sent"
    /\ LET taskId == inflight[o].taskId
       IN  IF taskId \in DOMAIN srvTasks
           THEN /\ srvComments' = [srvComments EXCEPT ![taskId] = @ + 1]
                /\ inbox' = EmitToBoard(inbox, srvTasks[taskId].boardId, "new_comment",
                                        About(taskId, srvTasks[taskId].boardId), o)
                /\ inflight' = With(inflight, o, Merge(inflight[o], [stage |-> "answered"]))
           ELSE /\ inflight' = With(inflight, o, Merge(inflight[o], [stage |-> "failed"]))
                /\ UNCHANGED <<srvComments, inbox>>
    /\ lastStep' = Quiet
    /\ UNCHANGED <<tasks, boards, error, srvTasks, srvSeq, nextOp, now, budget>>
    /\ UNCHANGED <<notifications, srvNotifications, pushed, noticeFetch, noticesLeft>>

\* the POST was answered 201: the task of the map gets commentsCount + 1, and
\* fetchNotifications is started
AddCommentOk(o) ==
    /\ UNCHANGED <<schedVars, roomVars, sessionVars, boardVars, socketVars, evictVars>>
    /\ o \in DOMAIN inflight
    /\ inflight[o].kind = "comment"
    /\ inflight[o].stage = "answered"
    /\ Cardinality(DOMAIN noticeFetch) < MaxNoticeFetches
    /\ tasks' = CommentCounted(tasks, inflight[o].taskId)
    /\ LET f == CHOOSE k \in 1..MaxNoticeFetches : k \notin DOMAIN noticeFetch
       IN  noticeFetch' = With(noticeFetch, f, [stage |-> "sent", data |-> <<>>])
    /\ inflight' = Without(inflight, o)
    /\ lastStep' = Step("commentOk", [taskId |-> inflight[o].taskId])
    /\ UNCHANGED <<boards, error, srvTasks, srvSeq, nextOp, inbox, now, budget>>
    /\ UNCHANGED <<notifications, srvNotifications, pushed, noticesLeft, srvComments>>

\* the POST failed: the catch logs and throws to the caller, the store is as
\* it was
AddCommentFail(o) ==
    /\ UNCHANGED otherThanStore
    /\ o \in DOMAIN inflight
    /\ inflight[o].kind = "comment"
    /\ inflight[o].stage \in {"sent", "failed"}
    /\ inflight' = Without(inflight, o)
    /\ lastStep' = Quiet
    /\ UNCHANGED <<tasks, boards, error, srvTasks, srvSeq, nextOp, inbox, now, budget>>

(* ---------------------------- specifications ---------------------------- *)
vars == <<storeVars, schedVars, roomVars, sessionVars, boardVars, socketVars, noticeVars, evictVars>>
NoCalls == [move |-> 0, create |-> 0, update |-> 0, remote |-> 0, comment |-> 0]

\* sequences of moveTask calls and what becomes of their deferred writes
InitMove ==
    /\ InitStore([NoCalls EXCEPT !.move = MaxMoves], {T1, T2, T3})
    /\ NoSched /\ InitRooms /\ NoSession /\ NoNotices /\ NoEvictions /\ NoRequests
NextMove == Moves \/ Puts
SpecMove == InitMove /\ [][NextMove]_vars

\* createTask calls, in the same millisecond or not
InitCreate ==
    /\ InitStore([NoCalls EXCEPT !.create = MaxCreates], {T1, T2})
    /\ NoSched /\ InitRooms /\ NoSession /\ NoNotices /\ NoEvictions /\ NoRequests
NextCreate == Creates \/ Tick
SpecCreate == InitCreate /\ [][NextCreate]_vars

\* a createTask with a drag of a task while it is in flight
InitDrag ==
    /\ InitStore([NoCalls EXCEPT !.create = 1, !.move = 1], {T1, T2})
    /\ NoSched /\ InitRooms /\ NoSession /\ NoNotices /\ NoEvictions /\ NoRequests
NextDrag == Creates \/ Moves \/ Puts
SpecDrag == InitDrag /\ [][NextDrag]_vars

\* updateTask and createTask calls racing their own broadcast and other users' writes
InitUpdate ==
    /\ InitStore([NoCalls EXCEPT !.create = 1, !.update = MaxUpdates, !.remote = MaxRemote],
                 {T1, T2})
    /\ NoSched /\ InitRooms /\ NoSession /\ NoNotices /\ NoEvictions /\ NoRequests
NextUpdate == Updates \/ Creates \/ Puts
SpecUpdate == InitUpdate /\ [][NextUpdate]_vars

\* a createTask and a moveTask whose writes the server can answer with 403 or 404
InitFailure ==
    /\ InitStore([NoCalls EXCEPT !.create = 1, !.move = 1], {T1, T2})
    /\ NoSched /\ InitRooms /\ NoSession /\ NoNotices /\ NoEvictions /\ NoRequests
NextFailure ==
    Creates \/ Moves \/ Puts
    \/ \E o \in DOMAIN inflight, why \in ErrorKinds : ServerRejectStatus(o, why)
SpecFailure == InitFailure /\ [][NextFailure]_vars

\* the deadline scheduler's runs and the recipients' notification requests
InitDeadlines == InitStore(NoCalls, {T1, T2}) /\ InitSched /\ InitRooms /\ NoSession /\ NoNotices /\ NoEvictions /\ NoRequests
NextDeadlines == Scheduler \/ Recipient
SpecDeadlines == InitDeadlines /\ [][NextDeadlines]_vars

\* sockets joining rooms while the routes emit
InitBroadcast == InitStore(NoCalls, {T1, T2}) /\ NoSched /\ InitRooms /\ NoSession /\ NoNotices /\ NoEvictions /\ NoRequests
NextBroadcast == Sockets \/ Routes
SpecBroadcast == InitBroadcast /\ [][NextBroadcast]_vars

\* a signed-in client whose connection comes and goes while others write
InitSession ==
    /\ InitStore([NoCalls EXCEPT !.remote = MaxRemote], {T1, T2})
    /\ NoSched /\ InitRooms /\ NoSession /\ NoNotices /\ NoEvictions /\ NoRequests
NextSession == Session \/ SessionOnTaskUpdated
SpecSession == InitSession /\ [][NextSession]_vars

\* sockets sending joins of their choosing while the routes emit
InitJoin == InitStore(NoCalls, {T1, T2}) /\ NoSched /\ InitRooms /\ NoSession /\ NoNotices /\ NoEvictions /\ NoRequests
NextJoin == SocketsAny \/ UserEmits
SpecJoin == InitJoin /\ [][NextJoin]_vars

\* runs of checkDeadlines in which the database or the emit can fail
InitTickFailure == InitStore(NoCalls, {T1, T2}) /\ InitSched /\ InitRooms /\ NoSession /\ NoNotices /\ NoEvictions /\ NoRequests
NextTickFailure == Scheduler \/ \E r \in RunIds, stored \in BOOLEAN : TickFail(r, stored)
SpecTickFailure == InitTickFailure /\ [][NextTickFailure]_vars

\* the ids the operations of one behaviour can get
OpIds == 1..(MaxCreates + MaxMoves + 1)
\* the event loop runs the continuation of every request whose response or
\* error has arrived; nothing makes a response arrive: api.createTask and
\* api.updateTask pass no timeout to axios, and no timer watches the request
ResponsesHandled ==
    \A o \in OpIds :
        /\ WF_vars(CreateTaskOk(o))
        /\ WF_vars(MoveWriteOk(o))
        /\ WF_vars(FetchTasksOk(o))
        /\ WF_vars(o \in DOMAIN inflight /\ inflight[o].stage = "failed" /\ CreateTaskFail(o))
        /\ WF_vars(o \in DOMAIN inflight /\ inflight[o].stage = "failed" /\ MoveWriteFail(o))
\* a createTask and a moveTask whose requests the network may never answer
SpecPending == InitDrag /\ [][NextDrag]_vars /\ ResponsesHandled

\* a client that has looked at the other board before (its tasks are in the
\* map, its columns in the list) while other users delete, comment and change
\* the boards, and a moveTask is under way
InitInbound ==
    /\ srvTasks = InitDocs
    /\ srvSeq = 3
    /\ tasks = [id \in {T1, T2, T3} |-> FromServer(InitDocs[id])]
    /\ boards = [b \in ServerBoards |->
                    [c \in ColumnIds |->
                        IF c # "todo" THEN <<>>
                        ELSE IF b = OpenBoard THEN <<T1, T2>> ELSE <<T3>>]]
    /\ error = NoVal
    /\ inflight = [o \in {} |-> NoVal]
    /\ nextOp = 1
    /\ inbox = <<>>
    /\ now = 1
    /\ budget = [NoCalls EXCEPT !.move = 1, !.remote = MaxOthers]
    /\ lastStep = Quiet
    /\ NoSched /\ InitRooms /\ NoSession /\ NoNotices /\ NoEvictions /\ NoRequests
NextInbound == Moves \/ Puts \/ Others \/ Inbound
SpecInbound == InitInbound /\ [][NextInbound]_vars

\* requests to the routes of boards, members and tasks, by the owner and by
\* another user
InitBoardRoutes == InitStore(NoCalls, {T1, T2}) /\ NoSched /\ InitRooms /\ NoSession /\ NoNotices /\ NoEvictions
                   /\ InitRequests(MaxRequests)
SpecBoardRoutes == InitBoardRoutes /\ [][BoardRequests]_vars

\* a signed-in client whose user object changes (initializeSocket runs again)
\* while other users comment and notifications are created for its user
InitListeners ==
    /\ InitStore([NoCalls EXCEPT !.remote = MaxOthers], {T1, T2})
    /\ NoSched /\ InitRooms /\ NoSession /\ InitNotices(MaxNotices) /\ NoEvictions /\ NoRequests
NextListeners ==
    \/ InitializeSocket
    \/ \E b \in ServerBoards : SetCurrentBoard(b)
    \/ TransportConnect
    \/ ServerReceive
    \/ \E t \in DOMAIN srvTasks : SessionRemoteComment(t)
    \/ SessionOnNewComment
    \/ ServerNotify
    \/ OnNewNotification
SpecListeners == InitListeners /\ [][NextListeners]_vars

\* updateTask calls while other users write to and delete the tasks of the
\* open board
InitOrphans ==
    /\ InitStore([NoCalls EXCEPT !.update = MaxUpdates, !.remote = MaxOthers], {T1, T2})
    /\ NoSched /\ InitRooms /\ NoSession /\ NoNotices /\ NoEvictions /\ NoRequests
NextOrphans ==
    \/ Updates
    \/ Puts
    \/ \E t \in DOMAIN srvTasks : RemoteDeleteTask(t)
    \/ OnTaskDeleted
SpecOrphans == InitOrphans /\ [][NextOrphans]_vars

\* a signed-in client that is a member of the other board, whose owner
\* removes it while the board's other members go on writing
InitEviction ==
    /\ srvTasks = InitDocs
    /\ srvSeq = 3
    /\ tasks = [id \in {T1, T2, T3} |-> FromServer(InitDocs[id])]
    /\ boards = [b \in ServerBoards |->
                    [c \in ColumnIds |->
                        IF c # "todo" THEN <<>>
                        ELSE IF b = OpenBoard THEN <<T1, T2>> ELSE <<T3>>]]
    /\ error = NoVal
    /\ inflight = [o \in {} |-> NoVal]
    /\ nextOp = 1
    /\ inbox = <<>>
    /\ now = 1
    /\ budget = [NoCalls EXCEPT !.remote = MaxRemote]
    /\ lastStep = Quiet
    /\ NoSched /\ InitRooms /\ NoSession /\ NoNotices /\ NoEvictions /\ NoRequests
NextEviction ==
    \/ InitializeSocket
    \/ \E b \in ServerBoards : SetCurrentBoard(b)
    \/ TransportConnect
    \/ ServerReceive
    \/ \E t \in DOMAIN srvTasks, b \in RemoteBodies : SessionRemotePut(t, b)
    \/ SessionOnTaskUpdated
    \/ EvictClient
    \/ OnYouWereRemoved
    \/ OnBoardUpdated
SpecEviction == InitEviction /\ [][NextEviction]_vars

\* a createTask, whose task_created starts fetchTasks, after other users
\* deleted tasks while the client's connection was lost
InitRefetch ==
    /\ InitStore([NoCalls EXCEPT !.create = 1, !.remote = MaxRemote], {T1, T2})
    /\ NoSched /\ InitRooms /\ NoSession /\ NoNotices /\ NoEvictions /\ NoRequests
NextRefetch ==
    \/ Creates
    \/ \E t \in DOMAIN srvTasks : RemoteDeleteUnseen(t)
SpecRefetch == InitRefetch /\ [][NextRefetch]_vars

\* addComment calls of the client on the tasks of its open board
InitComment ==
    /\ InitStore([NoCalls EXCEPT !.comment = MaxComments], {T1, T2})
    /\ NoSched /\ InitRooms /\ NoSession /\ NoNotices /\ NoEvictions /\ NoRequests
NextComment ==
    \/ \E t \in KnownIds : AddComment(t)
    \/ \E o \in DOMAIN inflight : ServerCommentPost(o)
    \/ \E o \in DOMAIN inflight : AddCommentOk(o)
    \/ \E o \in DOMAIN inflight : AddCommentFail(o)
    \/ OnNewComment
    \/ \E f \in DOMAIN noticeFetch : ServerFetchNotifications(f)
    \/ \E f \in DOMAIN noticeFetch : FetchNotificationsOk(f)
    \/ \E f \in DOMAIN noticeFetch : FetchNotificationsFail(f)
SpecComment == InitComment /\ [][NextComment]_vars

\* a signed-in client whose socket is connected and has joined the room of
\* its user and of the open board, the listeners registered once
SignedIn ==
    /\ link = "connected"
    /\ sendq = <<>>
    /\ current = OpenBoard
    /\ lostOnce = FALSE
    /\ missedLost = FALSE
    /\ missedOther = FALSE
    /\ leaked = 0
    /\ listeners = 1
    /\ rooms = [s \in Sessions |->
                  IF s = ClientSession THEN {UserRoom(ClientUser), BoardRoom(OpenBoard)}
                  ELSE {}]
    /\ lastEmit = NoEmit

\* notifications pushed to the client while it fetches its list
InitNotifications ==
    /\ InitStore(NoCalls, {T1, T2})
    /\ NoSched /\ SignedIn /\ InitNotices(MaxNotices) /\ NoEvictions /\ NoRequests
NextNotifications ==
    \/ ServerNotify
    \/ OnNewNotification
    \/ FetchNotifications
    \/ \E f \in DOMAIN noticeFetch : ServerFetchNotifications(f)
    \/ \E f \in DOMAIN noticeFetch : FetchNotificationsOk(f)
    \/ \E f \in DOMAIN noticeFetch : FetchNotificationsFail(f)
SpecNotifications == InitNotifications /\ [][NextNotifications]_vars

(* ------------------ properties of scheduler and rooms ------------------- *)
\* only ticks in succession have happened, over unchanged collections
inSuccession == ~overlapped /\ ~removed
AllIdle == \A r \in RunIds : runs[r].pc = "idle"
\* the tasks a tick notifies about: due, not done, their board found
Notifiable == {t \in DueTasks : SchedTasks[t].board}

\* C7: ticks run in succession over the unchanged task set leave exactly one
\* task_deadline notification per due task and have emitted it once: the
\* second tick creates and emits nothing
C7_DeadlineDedupe ==
    (inSuccession /\ AllIdle /\ ticksDone >= 1) =>
        /\ \A t \in Notifiable :
              /\ Cardinality(DeadlineNotifs(notifs, SchedTasks[t].userId, t)) = 1
              /\ emitted[t] = 1
        /\ \A t \in (DOMAIN SchedTasks) \ Notifiable : emitted[t] = 0

\* two ticks in succession have run to their end
C7_Witness ==
    /\ inSuccession /\ AllIdle /\ ticksDone = 2
    /\ \A t \in Notifiable :
          Cardinality(DeadlineNotifs(notifs, SchedTasks[t].userId, t)) = 1
    /\ Notifiable # {}

\* C8: the collection never holds two task_deadline notifications for the same
\* (userId, taskId), also when runs of the scan interleave
C8_OneDeadlinePerUserTask ==
    \A u \in Users, t \in DOMAIN SchedTasks :
        Cardinality(DeadlineNotifs(notifs, u, t)) <= 1

\* C9: whatever the recipient does with the notifications between ticks (mark
\* read, delete one, clear all), a task_deadline new_notification is emitted at
\* most once per task; runs that overlap are left aside here
C9_EmittedAtMostOnce ==
    ~overlapped => \A t \in DOMAIN SchedTasks : emitted[t] <= 1

\* C6: an event emitted for a mutation of board B reaches only sockets that have
\* joined board:B; a socket whose only board room is board:A gets none of them
C6_RoomIsolation ==
    \A s \in lastEmit.to :
        /\ BoardRoom(lastEmit.boardId) \in rooms[s]
        /\ \A a \in ServerBoards :
              (rooms[s] \cap {BoardRoom(b) : b \in ServerBoards} = {BoardRoom(a)})
                  => lastEmit.boardId = a

\* a socket that joined board:A alone while an event goes to board:B and
\* reaches another socket
C6_Witness ==
    /\ lastEmit.boardId = OtherBoard
    /\ lastEmit.to = {"s2"}
    /\ rooms["s1"] \cap {BoardRoom(b) : b \in ServerBoards} = {BoardRoom(OpenBoard)}

JoinsHandled == link = "connected" /\ sendq = <<>>

\* C12: whenever the transport is connected and the joins it sent are handled,
\* also after an automatic reconnection, the socket is in user:<id> and, with a
\* board open, in board:<id>
C12_RejoinsOnConnect ==
    JoinsHandled =>
        /\ UserRoom(ClientUser) \in rooms[ClientSession]
        /\ current # NoVal => BoardRoom(current) \in rooms[ClientSession]

\* the projection shows the server's tasks of the open board as they are
InSync ==
    \A t \in DOMAIN srvTasks :
        srvTasks[t].boardId = current =>
            /\ t \in DOMAIN tasks
            /\ tasks[t].status = srvTasks[t].status
            /\ tasks[t].title = srvTasks[t].title

\* C13: once the client is connected again after a loss and nothing is on its
\* way, the projection reflects the events of the open board that were emitted
\* while it was disconnected
C13_ResyncOnReconnect ==
    (/\ JoinsHandled /\ lostOnce /\ ~missedOther
     /\ current = OpenBoard /\ inbox = <<>> /\ DOMAIN inflight = {})
        => InSync

(* ------------------------- properties of the joins ---------------------- *)
BoardRoomsOf(s) == {b \in ServerBoards : BoardRoom(b) \in rooms[s]}

\* C14: a socket that joins board:B after board:A is no longer in board:A: the
\* step that takes a socket into a board room leaves it in no other board room
\* (so that it gets no event emitted to the room it was in before)
C14_JoinLeavesPrevious ==
    [][\A s \in Sessions, b \in ServerBoards :
          (BoardRoom(b) \in rooms'[s] /\ BoardRoom(b) \notin rooms[s])
              => \A a \in ServerBoards \ {b} : BoardRoom(a) \notin rooms'[s]]_vars

\* C15: a socket is in board:<id> only if its user is the owner or a member of
\* the board, or the board is public
C15_RoomOnlyForMembers ==
    \A s \in Sessions : \A b \in BoardRoomsOf(s) : UserOf(s) \in BoardAccess(b)

\* C16: a socket is in user:<u> only if u is its own user, and what is emitted
\* to user:<u> reaches the sockets of u alone
C16_UserRoomIsOwn ==
    /\ \A s \in Sessions, u \in Users : UserRoom(u) \in rooms[s] => u = UserOf(s)
    /\ \A s \in lastEmit.to, u \in Users : lastEmit.room = UserRoom(u) => u = UserOf(s)

(* --------------------- properties of the scheduler's runs --------------- *)
\* C17: a failure while one task is processed does not end the tick: a run
\* ends only at the last of the due tasks its query returned
C17_FailureDoesNotAbortTick ==
    [][\A r \in RunIds :
          (runs[r].pc # "idle" /\ runs'[r].pc = "idle") => Len(runs[r].queue) = 1]_vars

\* C18: a timer that fires while a run of checkDeadlines is unfinished starts
\* no other run: at most one run is executing at any time
C18_NoOverlappingTick ==
    Cardinality({r \in RunIds : runs[r].pc # "idle"}) <= 1

(* ----------------------- properties of failed writes -------------------- *)
\* C19: a failed write of createTask or moveTask rolls the optimistic change
\* back when the failure is of kind network; when it is not_authorized or
\* not_found the projection is left as it is and a refetch of the board starts
C19_RollbackOnlyOnNetwork ==
    [][lastStep'.kind \in {"moveFail", "createFail"} =>
          IF Field(lastStep'.info.op, "why") \in ErrorKinds
          THEN /\ tasks' = tasks
               /\ boards' = boards
               /\ \E o \in (DOMAIN inflight') \ (DOMAIN inflight) : inflight'[o].kind = "fetch"
          ELSE IF lastStep'.kind = "moveFail"
               THEN /\ tasks' = lastStep'.info.op.originalState.tasks
                    /\ boards' = lastStep'.info.op.originalState.boards
               ELSE /\ lastStep'.info.op.tempId \notin DOMAIN tasks'
                    /\ \A b \in DOMAIN boards' :
                          ColumnsHolding(boards', b, lastStep'.info.op.tempId) = {}]_vars

(* ------------------------ properties at reconciliation ------------------ *)
\* no write or fetch is in flight and every event pushed to the client is merged
Reconciled == DOMAIN inflight = {} /\ inbox = <<>>

\* C20: after reconciliation each task of the open board is in the list of
\* exactly one column, and its columnId is the id of that column; so also on a
\* client that learns of another user's move through task_updated alone
C20_ColumnIdMatchesList ==
    Reconciled =>
        \A t \in DOMAIN tasks :
            Field(tasks[t], "boardId") = OpenBoard =>
                ColumnsHolding(boards, OpenBoard, t) = {Field(tasks[t], "columnId")}

(* --------------------- properties of the board routes ------------------- *)
\* the mutations that affect other users
Mutations ==
    {"board_put", "board_delete", "member_add", "member_role", "accept", "reject",
     "member_remove", "task_post", "task_delete"}

\* C21: every successful mutation that affects other users is followed by at
\* least one emit to the affected board room or user room
C21_MutationEmits ==
    (lastRoute.ok /\ lastRoute.route \in Mutations) => lastRoute.emits # {}

(* --------------------- properties of inbound events --------------------- *)
\* C22: an inbound board-scoped event that concerns another board than the open
\* one leaves the task map and the boards as they are
C22_OtherBoardEventIgnored ==
    [][(inbox # <<>> /\ inbox' = Tail(inbox) /\ Head(inbox).task.boardId # OpenBoard)
          => (tasks' = tasks /\ boards' = boards)]_vars

\* C23: after an inbound task_deleted(taskId) is merged, taskId is a key of the
\* task map no more and is in no column's list of any board, whichever column
\* or board held it
C23_DeletedEverywhere ==
    lastStep.kind = "taskDeleted" =>
        /\ lastStep.info.taskId \notin DOMAIN tasks
        /\ \A b \in DOMAIN boards : ColumnsHolding(boards, b, lastStep.info.taskId) = {}

\* C24: when POST /api/tasks has stored the task, the task_created emit to the
\* board room and the new_notification emit of every notification that was
\* stored happen, also when the insert of one member's notification fails
C24_EmitsAreIndependent ==
    (lastRoute.route = "task_post" /\ lastRoute.status \in {201, 500}) =>
        /\ BoardEmit("task_created") \in lastRoute.emits
        /\ EmitsOf(lastRoute.stored) \subseteq lastRoute.emits

(* ------------------ properties of concurrent mutations ------------------ *)
\* the mutations of a task that are in flight
MutationsOf(fl, taskId) ==
    {o \in DOMAIN fl : fl[o].kind \in {"move", "update"} /\ fl[o].taskId = taskId}

\* C25: concurrent mutations of one task by the client are resolved
\* last-response-wins: when the response of a mutation is processed and no other
\* mutation of the task is in flight any more, and no write has failed, the
\* client's value of each field the mutation wrote is that mutation's value
C25_LastResponseWins ==
    [][\A o \in DOMAIN inflight :
          (/\ inflight[o].kind \in {"move", "update"}
           /\ inflight[o].stage = "answered"
           /\ o \notin DOMAIN inflight'
           /\ MutationsOf(inflight', inflight[o].taskId) = {}
           /\ error' = NoVal
           /\ inflight[o].taskId \in DOMAIN tasks')
          => IF inflight[o].kind = "move"
             THEN /\ tasks'[inflight[o].taskId].columnId = inflight[o].body.status
                  /\ tasks'[inflight[o].taskId].status = inflight[o].body.status
             ELSE \A k \in DOMAIN inflight[o].updates :
                     tasks'[inflight[o].taskId][k] = inflight[o].updates[k]]_vars

\* C26: the rollback of a failed moveTask undoes that move alone: the entries of
\* the other tasks and the places of the other ids in every list are after the
\* rollback what they were right before it, and a moved task that was deleted
\* meanwhile stays deleted
C26_RollbackUndoesOnlyTheMove ==
    [][lastStep'.kind = "moveFail" =>
          LET moved == lastStep'.info.op.taskId
          IN  /\ (DOMAIN tasks') \ {moved} = (DOMAIN tasks) \ {moved}
              /\ \A t \in (DOMAIN tasks) \ {moved} : t \in DOMAIN tasks' /\ tasks'[t] = tasks[t]
              /\ DOMAIN boards' = DOMAIN boards
              /\ \A b \in DOMAIN boards : \A c \in DOMAIN boards[b] :
                    FilterOut(boards'[b][c], moved) = FilterOut(boards[b][c], moved)
              /\ moved \notin DOMAIN tasks => moved \notin DOMAIN tasks']_vars

(* ------------------------ properties of membership ---------------------- *)
\* C27: a member's status changes only from pending, to active by accept or to
\* rejected by reject, and a role changes only by a request of the board's
\* owner for an active member
C27_MemberStatusTransitions ==
    [][(lastRoute'.ok /\ lastRoute'.route \in {"accept", "reject", "member_role"}) =>
          \A i \in 1..Len(srvBoard.members) :
              /\ srvBoard'.members[i].status # srvBoard.members[i].status =>
                    /\ srvBoard.members[i].status = "pending"
                    /\ lastRoute'.route = "accept" => srvBoard'.members[i].status = "active"
                    /\ lastRoute'.route = "reject" => srvBoard'.members[i].status = "rejected"
              /\ srvBoard'.members[i].role # srvBoard.members[i].role =>
                    /\ lastRoute'.route = "member_role"
                    /\ lastRoute'.by = srvBoard.ownerId
                    /\ srvBoard.members[i].status = "active"]_vars

(* ----------------------- properties of notifications -------------------- *)
\* C28: every new_notification emitted to user:<u> carries a notification whose
\* userId is u, and each notification a route stored is emitted to exactly one
\* user room
C28_NotificationToItsRecipient ==
    /\ \A e \in lastRoute.emits :
          e.type = "new_notification" =>
              \E n \in lastRoute.stored : n.id = e.notif /\ e.room = UserRoom(n.userId)
    /\ \A n \in lastRoute.stored :
          Cardinality({e \in lastRoute.emits :
                          e.type = "new_notification" /\ e.notif = n.id}) = 1

(* ------------------------ properties of pending writes ------------------ *)
\* the write of a createTask or of a moveTask is pending
PendingWrite(o) == o \in DOMAIN inflight /\ inflight[o].kind \in {"create", "move"}

\* C29: no optimistic change stays pending forever: the write of every
\* createTask and of every moveTask is eventually answered, failed or timed
\* out, and the operation reconciles or rolls back
C29_NoWritePendingForever ==
    \A o \in OpIds : PendingWrite(o) ~> ~PendingWrite(o)

(* ----------------------- properties of the transport -------------------- *)
\* C30: the client owns at most one live connection: no socket it created and
\* did not disconnect exists beside the current one, whatever the sequence of
\* initializeSocket, connection and sign-out
C30_OneLiveSocket == leaked = 0

(* --------- properties of listeners, notifications and comments ---------- *)
\* C31: an event the client's socket receives is applied to the store exactly
\* once: a new_notification makes the notifications list one entry longer, a
\* new_comment for a task of the map makes its commentsCount one larger,
\* however many times initializeSocket has run.
C31_EventAppliedOnce ==
    /\ lastStep.kind = "newNotification" =>
          lastStep.info.after = lastStep.info.before + 1
    /\ lastStep.kind = "newComment" /\ lastStep.info.known =>
          lastStep.info.after = lastStep.info.before + 1

\* no write is in flight and every received event has been merged
Quiescent == DOMAIN inflight = {} /\ inbox = <<>>
\* the entries of the task map the open board shows: those with its boardId,
\* and those that have lost theirs
OpenBoardKeys == {t \in DOMAIN tasks : Field(tasks[t], "boardId") \in {OpenBoard, NoVal}}

\* C32: in every quiescent state of the client, every key of the task map of
\* the open board is in exactly one column list of that board, and every id
\* in one of its column lists is a key of the task map.
C32_ProjectionConsistent ==
    Quiescent /\ OpenBoard \in DOMAIN boards =>
        /\ \A t \in OpenBoardKeys : Cardinality(ColumnsHolding(boards, OpenBoard, t)) = 1
        /\ \A c \in ColumnIds : \A i \in 1..Len(boards[OpenBoard][c]) :
              boards[OpenBoard][c][i] \in DOMAIN tasks

\* the createTask calls whose response has not been handled yet
CreatesInFlight == {o \in DOMAIN inflight : inflight[o].kind = "create"}

\* C33: two createTask calls that are in flight together have different
\* temporary ids, also when both were issued in the same clock millisecond.
C33_TempIdsDistinct ==
    \A o1 \in CreatesInFlight : \A o2 \in CreatesInFlight :
        o1 # o2 => inflight[o1].tempId # inflight[o2].tempId

\* the events of a board's room among those pushed to the client's socket
RoomEventsOf(box, boardId) ==
    Len(SelectSeq(box, LAMBDA e : e.type # "you_were_removed" /\ e.task.boardId = boardId))

\* C34: once the client's user has been removed from a board by its owner, no
\* event emitted to the room of that board reaches the client's socket any
\* more, and when the client has handled you_were_removed the board is not in
\* its list and is not its current board.
C34_EvictionEffective ==
    [][/\ \A b \in evicted : RoomEventsOf(inbox', b) <= RoomEventsOf(inbox, b)
       /\ lastStep' # lastStep /\ lastStep'.kind = "youWereRemoved" =>
             /\ lastStep'.info.boardId \notin DOMAIN boards'
             /\ current' # lastStep'.info.boardId]_vars

\* a moveTask, createTask or updateTask whose response has not been handled
MutationInFlight == \E o \in DOMAIN inflight : inflight[o].kind # "fetch"
\* the ids of the documents of a response
IdsOf(resp) == {resp[i].id : i \in 1..Len(resp)}

\* C35: when fetchTasks(boardId) completes with no mutation in flight, the
\* entries of the task map with that boardId are the tasks the server
\* returned: a task deleted on the server is gone from the map.
C35_FetchEqualsServer ==
    (lastStep.kind = "fetchOk" /\ ~MutationInFlight) =>
        {t \in DOMAIN tasks : Field(tasks[t], "boardId") = lastStep.info.op.boardId}
            = IdsOf(lastStep.info.op.resp)

\* C36: when the response of the commenter's addComment and the new_comment
\* broadcast have both been handled, the commentsCount of every task of the
\* map is the number of comments the server holds for it: one more per
\* comment, in either order of arrival.
C36_CommentCountedOnce ==
    Quiescent => \A t \in DOMAIN tasks : CommentsCount(tasks, t) = srvComments[t]

\* C37: the notifications list of the client never holds the same
\* notification id at two positions.
C37_NoDuplicateNotification ==
    \A i \in 1..Len(notifications) : \A j \in 1..Len(notifications) :
        i # j => notifications[i] # notifications[j]

(* ---------------------- properties of the members ----------------------- *)
\* C38: a removal of member X that the route answers with 200 leaves every
\* member entry that is not X's as it was and in its place, the pending
\* invitees without user id among them, and leaves the owner as it was.
C38_RemovalTouchesOnlyTheMember ==
    (lastRoute.route = "member_remove" /\ lastRoute.status = 200) =>
        /\ srvBoard.members =
              SelectSeq(lastRoute.before.members, LAMBDA m : m.id # lastRoute.target)
        /\ srvBoard.ownerId = lastRoute.before.ownerId

(* ------------------- properties of the order in a column ---------------- *)
\* the list of a column of the open board that another client gets from
\* fetchTasks: the server's tasks of the board by position and age
RemoteColumn(c) ==
    ColumnFromResponse(SortDocs({srvTasks[i] : i \in
                                   {j \in DOMAIN srvTasks : srvTasks[j].boardId = OpenBoard}}),
                       c)

\* C39: when every createTask and moveTask of the client has been persisted
\* (none failed) and every broadcast merged, each column list of the client
\* holds the same ids in the same order as the list a remote client gets
\* from fetchTasks.
C39_SameOrderEverywhere ==
    (Quiescent /\ error = NoVal /\ OpenBoard \in DOMAIN boards) =>
        \A c \in ColumnIds : boards[OpenBoard][c] = RemoteColumn(c)

====
